---- MODULE Spec2Model ----
(***************************************************************************)
(* Password-Strength-Checker: the scoring core (rule evaluators,           *)
(* aggregator, level mapping, feedback generator) of both PasswordChecker  *)
(* variants.                                                               *)
(*                                                                         *)
(* A password is a sequence of UTF-16 code units, written here as their    *)
(* numeric codes (what charCodeAt returns): "abc" is <<97, 98, 99>>.       *)
(* JavaScript indexes strings from 0 and TLA+ sequences from 1, so the     *)
(* code's password[i] is password[i + 1] here.                             *)
(*                                                                         *)
(* Variant 1 is the first PasswordChecker class of PasswordChecker.ts      *)
(* (English texts, built-in rule functions and lists); its definitions     *)
(* carry the source's names.  Variant 2 is the second class (Turkish       *)
(* texts, rules imported from Validators.ts); its definitions carry the    *)
(* suffix Tr, and those of Validators.ts the prefix Validators_.           *)
(* Message texts are written in ASCII: Turkish letters are transliterated  *)
(* and the bullet sign is written "*".                                     *)
(***************************************************************************)
EXTENDS Integers, Sequences, FiniteSets, TLC

VARIABLES
    password,           \* the string handed to analyze
    pc,                 \* "idle" before the call, then the variant that ran
    validationResults,  \* analyze's local validationResults (NotRun if never assigned)
    analysis,           \* the PasswordAnalysis returned (NoAnalysis before the call)
    score,              \* determineStrengthLevel's argument, two samples <<s, t>>
    level,              \* the levels returned for them (NoLevels before the call)
    timeToCrack,        \* estimateTimeToCrack's results for them (NoEstimate before)
    gen,                \* a call of generateRandomPassword: its position and locals
    app,                \* PasswordStrengthCheckerApp: the input, the toggle button,
                        \* analysisTimer and the browser's pending timers
    strengthMeter,      \* StrengthMeter: its three elements and the last call made
    ui                  \* UI: the contents of its four elements

vars == <<password, pc, validationResults, analysis, score, level, timeToCrack, gen,
          app, strengthMeter, ui>>

(***************************************************************************)
(* String primitives of the language runtime.                              *)
(***************************************************************************)
Min(a, b) == IF a < b THEN a ELSE b
Max(a, b) == IF a > b THEN a ELSE b

\* String.prototype.includes: w occurs in s as a contiguous substring.
includes(s, w) ==
    \E k \in 0..(Len(s) - Len(w)) : \A j \in 1..Len(w) : s[k + j] = w[j]

\* Array.prototype.includes on a list of strings.
listIncludes(list, s) == \E k \in 1..Len(list) : list[k] = s

\* String.prototype.toLowerCase on one code unit: A-Z map to a-z; every other
\* code unit of the Basic Latin block is left alone.
lowerCode(c) == IF c >= 65 /\ c <= 90 THEN c + 32 ELSE c

toLowerCase(s) == [k \in 1..Len(s) |-> lowerCode(s[k])]

\* The character classes of the regular expressions.
isLower(c) == c >= 97 /\ c <= 122                  \* [a-z]
isUpper(c) == c >= 65 /\ c <= 90                   \* [A-Z]
isDigit(c) == c >= 48 /\ c <= 57                   \* \d
isAlnum(c) == isLower(c) \/ isUpper(c) \/ isDigit(c)
\* [!@#$%^&*()_+\-=\[\]{};':"\\|,.<>\/?] : 30 listed punctuation signs
isListedSpecial(c) ==
    \/ (c >= 33 /\ c <= 47)        \* ! " # $ % & ' ( ) * + , - . /
    \/ (c >= 58 /\ c <= 64)        \* : ; < = > ? @
    \/ (c >= 91 /\ c <= 95)        \* [ \ ] ^ _
    \/ (c >= 123 /\ c <= 125)      \* { | }

\* RegExp.prototype.test with a one-character class: some code unit is in it.
testLower(s) == \E k \in 1..Len(s) : isLower(s[k])                    \* /[a-z]/
testUpper(s) == \E k \in 1..Len(s) : isUpper(s[k])                    \* /[A-Z]/
testDigit(s) == \E k \in 1..Len(s) : isDigit(s[k])                    \* /\d/
testListedSpecial(s) == \E k \in 1..Len(s) : isListedSpecial(s[k])
testNonAlnum(s) == \E k \in 1..Len(s) : ~isAlnum(s[k])                \* /[^a-zA-Z0-9]/

(***************************************************************************)
(* The static lists.                                                       *)
(***************************************************************************)
\* PasswordChecker.checkWeakPassword's local list (variant 1).
weakPasswords ==
    <<
       <<112, 97, 115, 115, 119, 111, 114, 100>>,             \* 'password'
       <<49, 50, 51, 52, 53, 54>>,                            \* '123456'
       <<49, 50, 51, 52, 53, 54, 55, 56>>,                    \* '12345678'
       <<49, 50, 51, 52, 53, 54, 55, 56, 57>>,                \* '123456789'
       <<113, 119, 101, 114, 116, 121>>,                      \* 'qwerty'
       <<97, 98, 99, 49, 50, 51>>,                            \* 'abc123'
       <<112, 97, 115, 115, 119, 111, 114, 100, 49>>,         \* 'password1'
       <<97, 100, 109, 105, 110>>,                            \* 'admin'
       <<108, 101, 116, 109, 101, 105, 110>>,                 \* 'letmein'
       <<119, 101, 108, 99, 111, 109, 101>>,                  \* 'welcome'
       <<109, 111, 110, 107, 101, 121>>,                      \* 'monkey'
       <<102, 111, 111, 116, 98, 97, 108, 108>>,              \* 'football'
       <<105, 108, 111, 118, 101, 121, 111, 117>>,            \* 'iloveyou'
       <<49, 50, 51, 49, 50, 51>>,                            \* '123123'
       <<49, 50, 51, 52>>,                                    \* '1234'
       <<49, 50, 51, 52, 53>>,                                \* '12345'
       <<49, 50, 51, 52, 53, 54, 55>>,                        \* '1234567'
       <<115, 117, 110, 115, 104, 105, 110, 101>>,            \* 'sunshine'
       <<109, 97, 115, 116, 101, 114>>,                       \* 'master'
       <<104, 101, 108, 108, 111>>                            \* 'hello'
    >>

\* PasswordChecker.checkSequentialChars's local list (variant 1).
sequentialPatterns ==
    <<
       <<49, 50, 51, 52, 53>>,                                \* '12345'
       <<50, 51, 52, 53, 54>>,                                \* '23456'
       <<51, 52, 53, 54, 55>>,                                \* '34567'
       <<52, 53, 54, 55, 56>>,                                \* '45678'
       <<53, 54, 55, 56, 57>>,                                \* '56789'
       <<54, 55, 56, 57, 48>>,                                \* '67890'
       <<97, 98, 99, 100, 101, 102>>,                         \* 'abcdef'
       <<98, 99, 100, 101, 102, 103>>,                        \* 'bcdefg'
       <<99, 100, 101, 102, 103, 104>>,                       \* 'cdefgh'
       <<100, 101, 102, 103, 104, 105>>,                      \* 'defghi'
       <<101, 102, 103, 104, 105, 106>>,                      \* 'efghij'
       <<102, 103, 104, 105, 106, 107>>,                      \* 'fghijk'
       <<103, 104, 105, 106, 107, 108>>,                      \* 'ghijkl'
       <<104, 105, 106, 107, 108, 109>>,                      \* 'hijklm'
       <<105, 106, 107, 108, 109, 110>>,                      \* 'ijklmn'
       <<106, 107, 108, 109, 110, 111>>,                      \* 'jklmno'
       <<107, 108, 109, 110, 111, 112>>,                      \* 'klmnop'
       <<108, 109, 110, 111, 112, 113>>,                      \* 'lmnopq'
       <<109, 110, 111, 112, 113, 114>>,                      \* 'mnopqr'
       <<110, 111, 112, 113, 114, 115>>,                      \* 'nopqrs'
       <<111, 112, 113, 114, 115, 116>>                       \* 'opqrst'
    >>

\* Validators.ts (variant 2).
WEAK_PASSWORDS ==
    <<
       <<112, 97, 115, 115, 119, 111, 114, 100>>,             \* 'password'
       <<49, 50, 51, 52, 53, 54>>,                            \* '123456'
       <<49, 50, 51, 52, 53, 54, 55, 56>>,                    \* '12345678'
       <<49, 50, 51, 52, 53, 54, 55, 56, 57>>,                \* '123456789'
       <<113, 119, 101, 114, 116, 121>>,                      \* 'qwerty'
       <<97, 98, 99, 49, 50, 51>>,                            \* 'abc123'
       <<112, 97, 115, 115, 119, 111, 114, 100, 49>>,         \* 'password1'
       <<97, 100, 109, 105, 110>>,                            \* 'admin'
       <<108, 101, 116, 109, 101, 105, 110>>,                 \* 'letmein'
       <<119, 101, 108, 99, 111, 109, 101>>,                  \* 'welcome'
       <<109, 111, 110, 107, 101, 121>>,                      \* 'monkey'
       <<102, 111, 111, 116, 98, 97, 108, 108>>,              \* 'football'
       <<105, 108, 111, 118, 101, 121, 111, 117>>,            \* 'iloveyou'
       <<49, 50, 51, 49, 50, 51>>,                            \* '123123'
       <<49, 50, 51, 52>>,                                    \* '1234'
       <<49, 50, 51, 52, 53>>,                                \* '12345'
       <<49, 50, 51, 52, 53, 54, 55>>,                        \* '1234567'
       <<115, 117, 110, 115, 104, 105, 110, 101>>,            \* 'sunshine'
       <<109, 97, 115, 116, 101, 114>>,                       \* 'master'
       <<104, 101, 108, 108, 111>>,                           \* 'hello'
       <<99, 104, 97, 114, 108, 105, 101>>,                   \* 'charlie'
       <<97, 97, 49, 50, 51, 52, 53, 54>>,                    \* 'aa123456'
       <<100, 111, 110, 97, 108, 100>>,                       \* 'donald'
       <<112, 97, 115, 115, 119, 111, 114, 100, 49, 50, 51>>, \* 'password123'
       <<113, 119, 101, 114, 116, 121, 49, 50, 51>>,          \* 'qwerty123'
       <<97, 100, 109, 105, 110, 49, 50, 51>>,                \* 'admin123'
       <<112, 97, 115, 115>>,                                 \* 'pass'
       <<116, 101, 115, 116>>,                                \* 'test'
       <<103, 117, 101, 115, 116>>,                           \* 'guest'
       <<116, 101, 109, 112>>,                                \* 'temp'
       <<117, 115, 101, 114>>                                 \* 'user'
    >>

SEQUENTIAL_PATTERNS ==
    <<
       <<49, 50, 51, 52, 53>>,                                \* '12345'
       <<50, 51, 52, 53, 54>>,                                \* '23456'
       <<51, 52, 53, 54, 55>>,                                \* '34567'
       <<52, 53, 54, 55, 56>>,                                \* '45678'
       <<53, 54, 55, 56, 57>>,                                \* '56789'
       <<54, 55, 56, 57, 48>>,                                \* '67890'
       <<97, 98, 99, 100, 101, 102>>,                         \* 'abcdef'
       <<98, 99, 100, 101, 102, 103>>,                        \* 'bcdefg'
       <<99, 100, 101, 102, 103, 104>>,                       \* 'cdefgh'
       <<100, 101, 102, 103, 104, 105>>,                      \* 'defghi'
       <<101, 102, 103, 104, 105, 106>>,                      \* 'efghij'
       <<102, 103, 104, 105, 106, 107>>,                      \* 'fghijk'
       <<103, 104, 105, 106, 107, 108>>,                      \* 'ghijkl'
       <<104, 105, 106, 107, 108, 109>>,                      \* 'hijklm'
       <<105, 106, 107, 108, 109, 110>>,                      \* 'ijklmn'
       <<106, 107, 108, 109, 110, 111>>,                      \* 'jklmno'
       <<107, 108, 109, 110, 111, 112>>,                      \* 'klmnop'
       <<108, 109, 110, 111, 112, 113>>,                      \* 'lmnopq'
       <<109, 110, 111, 112, 113, 114>>,                      \* 'mnopqr'
       <<110, 111, 112, 113, 114, 115>>,                      \* 'nopqrs'
       <<111, 112, 113, 114, 115, 116>>,                      \* 'opqrst'
       <<112, 113, 114, 115, 116, 117>>,                      \* 'pqrstu'
       <<113, 114, 115, 116, 117, 118>>,                      \* 'qrstuv'
       <<114, 115, 116, 117, 118, 119>>,                      \* 'rstuvw'
       <<115, 116, 117, 118, 119, 120>>,                      \* 'stuvwx'
       <<116, 117, 118, 119, 120, 121>>,                      \* 'tuvwxy'
       <<117, 118, 119, 120, 121, 122>>                       \* 'uvwxyz'
    >>

(***************************************************************************)
(* Loops shared by the two copies of the rule functions (the bodies in     *)
(* PasswordChecker.ts and in Validators.ts are the same statement for      *)
(* statement; only the lists they read differ).                            *)
(***************************************************************************)
\* for (let i = 1; i < password.length; i++): i is the 0-based index,
\* repeatCount and penalty the loop's two locals; the value is the final penalty.
RECURSIVE repeatLoop(_, _, _, _)
repeatLoop(p, i, repeatCount, penalty) ==
    IF i >= Len(p) THEN penalty
    ELSE IF p[i + 1] = p[i]
         THEN repeatLoop(p, i + 1, repeatCount + 1,
                         IF repeatCount + 1 >= 3 THEN penalty + 5 ELSE penalty)
         ELSE repeatLoop(p, i + 1, 1, penalty)

\* for (const pattern of patterns) if (lowerPassword.includes(pattern)) penalty += 10
RECURSIVE patternLoop(_, _, _, _)
patternLoop(patterns, lowerPassword, k, penalty) ==
    IF k > Len(patterns) THEN penalty
    ELSE patternLoop(patterns, lowerPassword, k + 1,
                     IF includes(lowerPassword, patterns[k])
                     THEN penalty + 10 ELSE penalty)

\* The condition of the second loop at 0-based index i: three code units
\* stepping by +1, +1 or by -1, -1.
isRunAt(p, i) ==
    LET charCode1 == p[i + 1]
        charCode2 == p[i + 2]
        charCode3 == p[i + 3]
    IN  \/ (charCode2 = charCode1 + 1 /\ charCode3 = charCode2 + 1)
        \/ (charCode2 = charCode1 - 1 /\ charCode3 = charCode2 - 1)

\* for (let i = 0; i < password.length - 2; i++) { if (...) { penalty += 5; break; } }
runLoop(p, penalty) ==
    IF \E i \in 0..(Len(p) - 3) : isRunAt(p, i) THEN penalty + 5 ELSE penalty

\* [hasLower, hasUpper, hasDigit, hasSpecial].filter(Boolean).length
typeCountOf(p) ==
    LET hasLower   == testLower(p)
        hasUpper   == testUpper(p)
        hasDigit   == testDigit(p)
        hasSpecial == testNonAlnum(p)
        one(b)     == IF b THEN 1 ELSE 0
    IN  one(hasLower) + one(hasUpper) + one(hasDigit) + one(hasSpecial)

(***************************************************************************)
(* Variant 1: the rule functions of the first PasswordChecker class.       *)
(***************************************************************************)
checkLength(p) ==
    IF Len(p) = 0 THEN 0
    ELSE IF Len(p) < 6 THEN 5
    ELSE IF Len(p) < 8 THEN 10
    ELSE IF Len(p) < 12 THEN 20
    ELSE 30

hasLowercase(p) == IF testLower(p) THEN 10 ELSE 0

hasUppercase(p) == IF testUpper(p) THEN 10 ELSE 0

hasNumbers(p) == IF testDigit(p) THEN 10 ELSE 0

hasSpecialChars(p) == IF testListedSpecial(p) THEN 15 ELSE 0

\* Mutant of checkRepeatingChars: the cap Math.min(penalty, 15) is forgotten.
checkRepeatingChars_uncapped(p) ==
    IF Len(p) < 3 THEN 0 ELSE repeatLoop(p, 1, 1, 0)

checkRepeatingChars(p) ==
    IF Len(p) < 3 THEN 0 ELSE Min(repeatLoop(p, 1, 1, 0), 15)

\* Mutant of checkWeakPassword: the list is compared with password itself,
\* not with its lower-case form.
checkWeakPassword_caseSensitive(p) ==
    IF listIncludes(weakPasswords, p) THEN 20
    ELSE IF \E k \in 1..Len(weakPasswords) :
                /\ includes(p, weakPasswords[k])
                /\ Len(weakPasswords[k]) >= 4
         THEN 15
         ELSE 0

checkWeakPassword(p) ==
    LET lowerPassword == toLowerCase(p)
    IN  IF listIncludes(weakPasswords, lowerPassword) THEN 20
        ELSE IF \E k \in 1..Len(weakPasswords) :
                    /\ includes(lowerPassword, weakPasswords[k])
                    /\ Len(weakPasswords[k]) >= 4
             THEN 15
             ELSE 0

\* Mutant of checkSequentialChars: the patterns are looked up in password
\* itself, not in its lower-case form.
checkSequentialChars_caseSensitive(p) ==
    Min(runLoop(p, patternLoop(sequentialPatterns, p, 1, 0)), 15)

checkSequentialChars(p) ==
    LET lowerPassword == toLowerCase(p)
    IN  Min(runLoop(p, patternLoop(sequentialPatterns, lowerPassword, 1, 0)), 15)

\* Mutant of checkCharacterVariety: four types are worth 20.
checkCharacterVariety_twentyForFour(p) ==
    LET typeCount == typeCountOf(p)
    IN  IF typeCount = 4 THEN 20
        ELSE IF typeCount = 3 THEN 5
        ELSE IF typeCount = 2 THEN 2
        ELSE 0

checkCharacterVariety(p) ==
    LET typeCount == typeCountOf(p)
    IN  IF typeCount = 4 THEN 10
        ELSE IF typeCount = 3 THEN 5
        ELSE IF typeCount = 2 THEN 2
        ELSE 0

runAllValidations(p) ==
    [ length                 |-> checkLength(p),
      hasLowercase           |-> hasLowercase(p),
      hasUppercase           |-> hasUppercase(p),
      hasNumbers             |-> hasNumbers(p),
      hasSpecialChars        |-> hasSpecialChars(p),
      repeatingCharsPenalty  |-> checkRepeatingChars(p),
      weakPasswordPenalty    |-> checkWeakPassword(p),
      sequentialCharsPenalty |-> checkSequentialChars(p),
      varietyBonus           |-> checkCharacterVariety(p) ]

(***************************************************************************)
(* Validators.ts: the rule functions variant 2 imports.                    *)
(***************************************************************************)
\* Mutant of Validators_checkLength: the 20-point band starts at 10 characters.
Validators_checkLength_from10(p) ==
    IF Len(p) = 0 THEN 0
    ELSE IF Len(p) < 6 THEN 5
    ELSE IF Len(p) < 10 THEN 10
    ELSE IF Len(p) < 12 THEN 20
    ELSE 30

Validators_checkLength(p) ==
    IF Len(p) = 0 THEN 0
    ELSE IF Len(p) < 6 THEN 5
    ELSE IF Len(p) < 8 THEN 10
    ELSE IF Len(p) < 12 THEN 20
    ELSE 30

Validators_hasLowercase(p) == IF testLower(p) THEN 10 ELSE 0

Validators_hasUppercase(p) == IF testUpper(p) THEN 10 ELSE 0

Validators_hasNumbers(p) == IF testDigit(p) THEN 10 ELSE 0

Validators_hasSpecialChars(p) == IF testListedSpecial(p) THEN 15 ELSE 0

Validators_checkRepeatingChars(p) ==
    IF Len(p) < 3 THEN 0 ELSE Min(repeatLoop(p, 1, 1, 0), 15)

\* Mutant of Validators_checkWeakPassword: the exact match is not told from
\* the partial one and gets its penalty.
Validators_checkWeakPassword_exactAsPartial(p) ==
    LET lowerPassword == toLowerCase(p)
    IN  IF \E k \in 1..Len(WEAK_PASSWORDS) :
               /\ includes(lowerPassword, WEAK_PASSWORDS[k])
               /\ Len(WEAK_PASSWORDS[k]) >= 4
        THEN 15
        ELSE 0

Validators_checkWeakPassword(p) ==
    LET lowerPassword == toLowerCase(p)
    IN  IF listIncludes(WEAK_PASSWORDS, lowerPassword) THEN 20
        ELSE IF \E k \in 1..Len(WEAK_PASSWORDS) :
                    /\ includes(lowerPassword, WEAK_PASSWORDS[k])
                    /\ Len(WEAK_PASSWORDS[k]) >= 4
             THEN 15
             ELSE 0

Validators_checkSequentialChars(p) ==
    LET lowerPassword == toLowerCase(p)
    IN  Min(runLoop(p, patternLoop(SEQUENTIAL_PATTERNS, lowerPassword, 1, 0)), 15)

Validators_checkCharacterVariety(p) ==
    LET typeCount == typeCountOf(p)
    IN  IF typeCount = 4 THEN 10
        ELSE IF typeCount = 3 THEN 5
        ELSE IF typeCount = 2 THEN 2
        ELSE 0

Validators_runAllValidations(p) ==
    [ length                 |-> Validators_checkLength(p),
      hasLowercase           |-> Validators_hasLowercase(p),
      hasUppercase           |-> Validators_hasUppercase(p),
      hasNumbers             |-> Validators_hasNumbers(p),
      hasSpecialChars        |-> Validators_hasSpecialChars(p),
      repeatingCharsPenalty  |-> Validators_checkRepeatingChars(p),
      weakPasswordPenalty    |-> Validators_checkWeakPassword(p),
      sequentialCharsPenalty |-> Validators_checkSequentialChars(p),
      varietyBonus           |-> Validators_checkCharacterVariety(p) ]

(***************************************************************************)
(* The aggregator and the feedback generator, variant 1.                   *)
(***************************************************************************)
\* enum StrengthLevel, by member name, in declaration order.
StrengthLevel == <<"EMPTY", "VERY_WEAK", "WEAK", "MEDIUM", "STRONG", "VERY_STRONG">>

\* suggestions.push(msg) / feedback.push(msg) under a condition.
pushIf(cond, list, msg) == IF cond THEN Append(list, msg) ELSE list

\* Object.values(criteria).filter(Boolean).length
positiveCountOf(criteria) ==
    LET one(b) == IF b THEN 1 ELSE 0
    IN  one(criteria.length) + one(criteria.hasLowercase) + one(criteria.hasUppercase)
        + one(criteria.hasNumbers) + one(criteria.hasSpecialChars)
        + one(criteria.noRepeatingChars) + one(criteria.notWeakPassword)
        + one(criteria.noSequentialChars)

\* The criteria object analyze builds from validationResults (same in both variants).
criteriaOf(v) ==
    [ length            |-> v.length >= 20,
      hasLowercase      |-> v.hasLowercase > 0,
      hasUppercase      |-> v.hasUppercase > 0,
      hasNumbers        |-> v.hasNumbers > 0,
      hasSpecialChars   |-> v.hasSpecialChars > 0,
      noRepeatingChars  |-> v.repeatingCharsPenalty = 0,
      notWeakPassword   |-> v.weakPasswordPenalty = 0,
      noSequentialChars |-> v.sequentialCharsPenalty = 0 ]

\* Mutant of totalScoreOf: the sequential penalty is left out of the subtraction.
totalScoreOf_noSequential(v) ==
    (v.length + v.hasLowercase + v.hasUppercase + v.hasNumbers
       + v.hasSpecialChars + v.varietyBonus)
    - (v.repeatingCharsPenalty + v.weakPasswordPenalty)

\* let totalScore = bonuses; totalScore -= penalties; (before the clamp)
totalScoreOf(v) ==
    (v.length + v.hasLowercase + v.hasUppercase + v.hasNumbers
       + v.hasSpecialChars + v.varietyBonus)
    - (v.repeatingCharsPenalty + v.weakPasswordPenalty + v.sequentialCharsPenalty)

\* Mutant of clampScore: the lower clamp Math.max(0, ...) is forgotten.
clampScore_noFloor(totalScore) == Min(totalScore, 100)

\* totalScore = Math.max(0, Math.min(totalScore, 100))
clampScore(totalScore) == Max(0, Min(totalScore, 100))

getEmptyAnalysis ==
    [ score       |-> 0,
      level       |-> "EMPTY",
      criteria    |-> [ length |-> FALSE, hasLowercase |-> FALSE,
                        hasUppercase |-> FALSE, hasNumbers |-> FALSE,
                        hasSpecialChars |-> FALSE, noRepeatingChars |-> FALSE,
                        notWeakPassword |-> FALSE, noSequentialChars |-> FALSE ],
      feedback    |-> << "Please enter a password to analyze" >>,
      suggestions |-> << "Password should be at least 8 characters long" >> ]

\* Mutant of determineStrengthLevel: the line for WEAK (score < 40) is missing.
determineStrengthLevel_noWeak(s) ==
    IF s = 0 THEN "EMPTY"
    ELSE IF s < 20 THEN "VERY_WEAK"
    ELSE IF s < 60 THEN "MEDIUM"
    ELSE IF s < 80 THEN "STRONG"
    ELSE "VERY_STRONG"

determineStrengthLevel(s) ==
    IF s = 0 THEN "EMPTY"
    ELSE IF s < 20 THEN "VERY_WEAK"
    ELSE IF s < 40 THEN "WEAK"
    ELSE IF s < 60 THEN "MEDIUM"
    ELSE IF s < 80 THEN "STRONG"
    ELSE "VERY_STRONG"

\* Mutant of generateFeedback: the middle closing message needs five true criteria.
generateFeedback_closingAt5(p, criteria) ==
    LET n  == ToString(Len(p))
        f1 == << IF Len(p) < 8
                 THEN "Password is too short (" \o n
                      \o " characters). Minimum 8 characters recommended."
                 ELSE IF Len(p) < 12
                 THEN "Password is medium length (" \o n
                      \o " characters). 12+ characters is more secure."
                 ELSE "Good password length (" \o n \o " characters)." >>
        f2 == pushIf(~criteria.hasLowercase, f1,
                "Missing lowercase letters. Add some lowercase letters (a-z).")
        f3 == pushIf(~criteria.hasUppercase, f2,
                "Missing uppercase letters. Add some uppercase letters (A-Z).")
        f4 == pushIf(~criteria.hasNumbers, f3,
                "Missing numbers. Add some numbers (0-9).")
        f5 == pushIf(~criteria.hasSpecialChars, f4,
                "Missing special characters. Add some special characters (!@#$%^&* etc.).")
        f6 == pushIf(~criteria.noRepeatingChars, f5,
                "Contains repeating characters. Try to avoid character repetitions.")
        f7 == pushIf(~criteria.notWeakPassword, f6,
                "Password contains common words or patterns.")
        f8 == pushIf(~criteria.noSequentialChars, f7,
                "Contains sequential characters (like abc, 123).")
        positiveCount == positiveCountOf(criteria)
    IN  IF positiveCount >= 6
        THEN Append(f8, "Excellent! Your password meets most security criteria.")
        ELSE IF positiveCount >= 5
        THEN Append(f8, "Good start! Your password could be stronger with more variety.")
        ELSE f8

\* Mutant of generateFeedback: the lowercase message is kept back when most
\* criteria are met.
generateFeedback_lowercaseOnlyWhenWeak(p, criteria) ==
    LET n  == ToString(Len(p))
        f1 == << IF Len(p) < 8
                 THEN "Password is too short (" \o n
                      \o " characters). Minimum 8 characters recommended."
                 ELSE IF Len(p) < 12
                 THEN "Password is medium length (" \o n
                      \o " characters). 12+ characters is more secure."
                 ELSE "Good password length (" \o n \o " characters)." >>
        f2 == pushIf(~criteria.hasLowercase /\ positiveCountOf(criteria) < 6, f1,
                "Missing lowercase letters. Add some lowercase letters (a-z).")
        f3 == pushIf(~criteria.hasUppercase, f2,
                "Missing uppercase letters. Add some uppercase letters (A-Z).")
        f4 == pushIf(~criteria.hasNumbers, f3,
                "Missing numbers. Add some numbers (0-9).")
        f5 == pushIf(~criteria.hasSpecialChars, f4,
                "Missing special characters. Add some special characters (!@#$%^&* etc.).")
        f6 == pushIf(~criteria.noRepeatingChars, f5,
                "Contains repeating characters. Try to avoid character repetitions.")
        f7 == pushIf(~criteria.notWeakPassword, f6,
                "Password contains common words or patterns.")
        f8 == pushIf(~criteria.noSequentialChars, f7,
                "Contains sequential characters (like abc, 123).")
        positiveCount == positiveCountOf(criteria)
    IN  IF positiveCount >= 6
        THEN Append(f8, "Excellent! Your password meets most security criteria.")
        ELSE IF positiveCount >= 4
        THEN Append(f8, "Good start! Your password could be stronger with more variety.")
        ELSE f8

generateFeedback(p, criteria) ==
    LET n  == ToString(Len(p))
        f1 == << IF Len(p) < 8
                 THEN "Password is too short (" \o n
                      \o " characters). Minimum 8 characters recommended."
                 ELSE IF Len(p) < 12
                 THEN "Password is medium length (" \o n
                      \o " characters). 12+ characters is more secure."
                 ELSE "Good password length (" \o n \o " characters)." >>
        f2 == pushIf(~criteria.hasLowercase, f1,
                "Missing lowercase letters. Add some lowercase letters (a-z).")
        f3 == pushIf(~criteria.hasUppercase, f2,
                "Missing uppercase letters. Add some uppercase letters (A-Z).")
        f4 == pushIf(~criteria.hasNumbers, f3,
                "Missing numbers. Add some numbers (0-9).")
        f5 == pushIf(~criteria.hasSpecialChars, f4,
                "Missing special characters. Add some special characters (!@#$%^&* etc.).")
        f6 == pushIf(~criteria.noRepeatingChars, f5,
                "Contains repeating characters. Try to avoid character repetitions.")
        f7 == pushIf(~criteria.notWeakPassword, f6,
                "Password contains common words or patterns.")
        f8 == pushIf(~criteria.noSequentialChars, f7,
                "Contains sequential characters (like abc, 123).")
        positiveCount == positiveCountOf(criteria)
    IN  IF positiveCount >= 6
        THEN Append(f8, "Excellent! Your password meets most security criteria.")
        ELSE IF positiveCount >= 4
        THEN Append(f8, "Good start! Your password could be stronger with more variety.")
        ELSE f8

\* Mutant of generateSuggestions: the first encouragement starts at score 80.
generateSuggestions_goodJobAt80(criteria, s) ==
    LET s0 == pushIf(s < 50, <<>>, "To strengthen your password:")
        s1 == pushIf(~criteria.length, s0, "* Increase length to at least 12 characters")
        s2 == pushIf(~criteria.hasLowercase, s1, "* Add lowercase letters (a-z)")
        s3 == pushIf(~criteria.hasUppercase, s2, "* Add uppercase letters (A-Z)")
        s4 == pushIf(~criteria.hasNumbers, s3, "* Add numbers (0-9)")
        s5 == pushIf(~criteria.hasSpecialChars, s4,
                "* Add special characters (!@#$%^&* etc.)")
        s6 == pushIf(~criteria.noRepeatingChars, s5,
                "* Avoid repeating the same character multiple times")
        s7 == pushIf(~criteria.notWeakPassword, s6,
                "* Avoid common words and predictable patterns")
        s8 == pushIf(~criteria.noSequentialChars, s7,
                "* Avoid sequential characters (abc, 123, etc.)")
        s9 == pushIf(s >= 80, s8, "Good job! Your password has decent security.")
    IN  pushIf(s >= 85, s9, "Excellent! Your password is very secure.")

generateSuggestions(criteria, s) ==
    LET s0 == pushIf(s < 50, <<>>, "To strengthen your password:")
        s1 == pushIf(~criteria.length, s0, "* Increase length to at least 12 characters")
        s2 == pushIf(~criteria.hasLowercase, s1, "* Add lowercase letters (a-z)")
        s3 == pushIf(~criteria.hasUppercase, s2, "* Add uppercase letters (A-Z)")
        s4 == pushIf(~criteria.hasNumbers, s3, "* Add numbers (0-9)")
        s5 == pushIf(~criteria.hasSpecialChars, s4,
                "* Add special characters (!@#$%^&* etc.)")
        s6 == pushIf(~criteria.noRepeatingChars, s5,
                "* Avoid repeating the same character multiple times")
        s7 == pushIf(~criteria.notWeakPassword, s6,
                "* Avoid common words and predictable patterns")
        s8 == pushIf(~criteria.noSequentialChars, s7,
                "* Avoid sequential characters (abc, 123, etc.)")
        s9 == pushIf(s >= 70, s8, "Good job! Your password has decent security.")
    IN  pushIf(s >= 85, s9, "Excellent! Your password is very secure.")

\* The value of analyze's local validationResults on the path that returns
\* before assigning it.
NotRun == [ assigned |-> FALSE ]

\* analyze past its first return: the rules are run and the result is built.
\* validationResults is the call's local as the call leaves it, returned the
\* PasswordAnalysis.  Math.round is the identity on the integer totalScore.
analyzeRules(p) ==
    LET v          == runAllValidations(p)
        totalScore == clampScore(totalScoreOf(v))
        lvl        == determineStrengthLevel(totalScore)
        criteria   == criteriaOf(v)
    IN  [ validationResults |-> v,
          returned |-> [ score       |-> totalScore,
                         level       |-> lvl,
                         criteria    |-> criteria,
                         feedback    |-> generateFeedback(p, criteria),
                         suggestions |-> generateSuggestions(criteria, totalScore) ] ]

\* Mutant of analyzeCall: the early return for the empty password is missing.
analyzeCall_noEmptyReturn(p) == analyzeRules(p)

\* One call of analyze.  (!password is true of the empty string only.)
analyzeCall(p) ==
    IF Len(p) = 0
    THEN [ validationResults |-> NotRun, returned |-> getEmptyAnalysis ]
    ELSE analyzeRules(p)

analyze(p) == analyzeCall(p).returned

(***************************************************************************)
(* The aggregator and the feedback generator, variant 2.                   *)
(***************************************************************************)
getEmptyAnalysisTr ==
    [ score       |-> 0,
      level       |-> "EMPTY",
      criteria    |-> [ length |-> FALSE, hasLowercase |-> FALSE,
                        hasUppercase |-> FALSE, hasNumbers |-> FALSE,
                        hasSpecialChars |-> FALSE, noRepeatingChars |-> FALSE,
                        notWeakPassword |-> FALSE, noSequentialChars |-> FALSE ],
      feedback    |-> << "Lutfen bir parola girin" >>,
      suggestions |-> << "Parola uzunlugu en az 8 karakter olmalidir" >> ]

\* Mutant of determineStrengthLevelTr: the STRONG band starts at 80, not 70.
determineStrengthLevelTr_strongAt80(s) ==
    IF s = 0 THEN "EMPTY"
    ELSE IF s < 30 THEN "VERY_WEAK"
    ELSE IF s < 50 THEN "WEAK"
    ELSE IF s < 80 THEN "MEDIUM"
    ELSE IF s < 85 THEN "STRONG"
    ELSE "VERY_STRONG"

determineStrengthLevelTr(s) ==
    IF s = 0 THEN "EMPTY"
    ELSE IF s < 30 THEN "VERY_WEAK"
    ELSE IF s < 50 THEN "WEAK"
    ELSE IF s < 70 THEN "MEDIUM"
    ELSE IF s < 85 THEN "STRONG"
    ELSE "VERY_STRONG"

generateFeedbackTr(p, v, criteria) ==
    LET n  == ToString(Len(p))
        f1 == << IF Len(p) < 8
                 THEN "Parolaniz cok kisa (" \o n
                      \o " karakter). En az 8 karakter onerilir."
                 ELSE IF Len(p) < 12
                 THEN "Parolaniz orta uzunlukta (" \o n
                      \o " karakter). 12+ karakter daha guvenlidir."
                 ELSE "Parolaniz yeterli uzunlukta (" \o n \o " karakter)." >>
        f2 == pushIf(~criteria.hasLowercase, f1,
                "Kucuk harf icermiyor. Kucuk harf ekleyin.")
        f3 == pushIf(~criteria.hasUppercase, f2,
                "Buyuk harf icermiyor. Buyuk harf ekleyin.")
        f4 == pushIf(~criteria.hasNumbers, f3, "Rakam icermiyor. Rakam ekleyin.")
        f5 == pushIf(~criteria.hasSpecialChars, f4,
                "Ozel karakter icermiyor. Ozel karakter ekleyin.")
        f6 == pushIf(~criteria.noRepeatingChars, f5,
                "Tekrarlanan karakterler iceriyor. Tekrarlari azaltin.")
        f7 == pushIf(~criteria.notWeakPassword, f6,
                "Yaygin kullanilan bir parola veya benzeri iceriyor.")
        f8 == pushIf(~criteria.noSequentialChars, f7,
                "Sirali karakterler iceriyor (abc, 123 gibi).")
        positiveCount == positiveCountOf(criteria)
    IN  IF positiveCount >= 6
        THEN Append(f8, "Harika! Parolaniz cogu guvenlik kriterini karsiliyor.")
        ELSE IF positiveCount >= 4
        THEN Append(f8, "Iyi baslangic! Ancak daha fazla guvenlik icin gelistirilebilir.")
        ELSE f8

\* Mutant of generateSuggestionsTr: the lowercase bullet is pushed before the length bullet.
generateSuggestionsTr_lowercaseFirst(criteria, s) ==
    LET s0 == pushIf(s < 50, <<>>,
                "Parolanizi guclendirmek icin asagidaki onerileri uygulayin:")
        s1 == pushIf(~criteria.hasLowercase, s0, "* En az bir kucuk harf ekleyin (a-z)")
        s2 == pushIf(~criteria.length, s1,
                "* Parola uzunlugunu en az 12 karaktere cikarin")
        s3 == pushIf(~criteria.hasUppercase, s2, "* En az bir buyuk harf ekleyin (A-Z)")
        s4 == pushIf(~criteria.hasNumbers, s3, "* En az bir rakam ekleyin (0-9)")
        s5 == pushIf(~criteria.hasSpecialChars, s4,
                "* En az bir ozel karakter ekleyin (!@#$%^&* gibi)")
        s6 == pushIf(~criteria.noRepeatingChars, s5,
                "* Ayni karakteri arka arkaya tekrarlamaktan kacinin")
        s7 == pushIf(~criteria.notWeakPassword, s6,
                "* Yaygin kullanilan kelimeler ve parolalari kullanmayin")
        s8 == pushIf(~criteria.noSequentialChars, s7,
                "* Sirali karakter dizilerinden kacinin (abc, 123 gibi)")
        s9 == pushIf(s >= 70, s8, "Guzel! Parolaniz iyi bir guvenlik seviyesine sahip.")
    IN  pushIf(s >= 85, s9, "Mukemmel! Parolaniz cok guclu gorunuyor.")

generateSuggestionsTr(criteria, s) ==
    LET s0 == pushIf(s < 50, <<>>,
                "Parolanizi guclendirmek icin asagidaki onerileri uygulayin:")
        s1 == pushIf(~criteria.length, s0,
                "* Parola uzunlugunu en az 12 karaktere cikarin")
        s2 == pushIf(~criteria.hasLowercase, s1, "* En az bir kucuk harf ekleyin (a-z)")
        s3 == pushIf(~criteria.hasUppercase, s2, "* En az bir buyuk harf ekleyin (A-Z)")
        s4 == pushIf(~criteria.hasNumbers, s3, "* En az bir rakam ekleyin (0-9)")
        s5 == pushIf(~criteria.hasSpecialChars, s4,
                "* En az bir ozel karakter ekleyin (!@#$%^&* gibi)")
        s6 == pushIf(~criteria.noRepeatingChars, s5,
                "* Ayni karakteri arka arkaya tekrarlamaktan kacinin")
        s7 == pushIf(~criteria.notWeakPassword, s6,
                "* Yaygin kullanilan kelimeler ve parolalari kullanmayin")
        s8 == pushIf(~criteria.noSequentialChars, s7,
                "* Sirali karakter dizilerinden kacinin (abc, 123 gibi)")
        s9 == pushIf(s >= 70, s8, "Guzel! Parolaniz iyi bir guvenlik seviyesine sahip.")
    IN  pushIf(s >= 85, s9, "Mukemmel! Parolaniz cok guclu gorunuyor.")

analyzeRulesTr(p) ==
    LET v          == Validators_runAllValidations(p)
        totalScore == clampScore(totalScoreOf(v))
        lvl        == determineStrengthLevelTr(totalScore)
        criteria   == criteriaOf(v)
    IN  [ validationResults |-> v,
          returned |-> [ score       |-> totalScore,
                         level       |-> lvl,
                         criteria    |-> criteria,
                         feedback    |-> generateFeedbackTr(p, v, criteria),
                         suggestions |-> generateSuggestionsTr(criteria, totalScore) ] ]

analyzeCallTr(p) ==
    IF Len(p) = 0
    THEN [ validationResults |-> NotRun, returned |-> getEmptyAnalysisTr ]
    ELSE analyzeRulesTr(p)

analyzeTr(p) == analyzeCallTr(p).returned

(***************************************************************************)
(* estimateTimeToCrack, variant 1: bands of the score, with the length.    *)
(***************************************************************************)
\* The code units String.prototype.trim removes (WhiteSpace and LineTerminator).
isWhiteSpace(c) ==
    \/ c \in {9, 10, 11, 12, 13, 32, 160, 5760, 8232, 8233, 8239, 8287, 12288, 65279}
    \/ c \in 8192..8202

\* password.trim()
trim(s) ==
    LET kept == {i \in 1..Len(s) : ~isWhiteSpace(s[i])}
    IN  IF kept = {} THEN << >>
        ELSE SubSeq(s, CHOOSE i \in kept : \A j \in kept : i <= j,
                       CHOOSE i \in kept : \A j \in kept : i >= j)

\* Mutant of estimateTimeToCrack: the empty-input check is dropped.
estimateTimeToCrack_noSentinel(p, s) ==
    LET length == Len(p)
    IN  IF s < 20 \/ length < 6 THEN "Instantly"
        ELSE IF s < 30 THEN "Seconds"
        ELSE IF s < 40 THEN "Minutes"
        ELSE IF s < 50 THEN "Hours"
        ELSE IF s < 60 THEN "Days"
        ELSE IF s < 70 THEN "Weeks"
        ELSE IF s < 80 THEN "Months"
        ELSE IF s < 90 THEN "Years"
        ELSE IF length >= 16 THEN "Decades"
        ELSE IF length >= 12 THEN "Years to decades"
        ELSE "Years"

\* Mutant of estimateTimeToCrack: the top band ignores the length.
estimateTimeToCrack_noLengthOverride(p, s) ==
    LET length == Len(p)
    IN  IF Len(p) = 0 \/ Len(trim(p)) = 0 THEN "Please enter a password"
        ELSE IF s < 20 \/ length < 6 THEN "Instantly"
        ELSE IF s < 30 THEN "Seconds"
        ELSE IF s < 40 THEN "Minutes"
        ELSE IF s < 50 THEN "Hours"
        ELSE IF s < 60 THEN "Days"
        ELSE IF s < 70 THEN "Weeks"
        ELSE IF s < 80 THEN "Months"
        ELSE IF s < 90 THEN "Years"
        ELSE "Decades"

estimateTimeToCrack(p, s) ==
    LET length == Len(p)
    IN  IF Len(p) = 0 \/ Len(trim(p)) = 0 THEN "Please enter a password"
        ELSE IF s < 20 \/ length < 6 THEN "Instantly"
        ELSE IF s < 30 THEN "Seconds"
        ELSE IF s < 40 THEN "Minutes"
        ELSE IF s < 50 THEN "Hours"
        ELSE IF s < 60 THEN "Days"
        ELSE IF s < 70 THEN "Weeks"
        ELSE IF s < 80 THEN "Months"
        ELSE IF s < 90 THEN "Years"
        ELSE IF length >= 16 THEN "Decades"
        ELSE IF length >= 12 THEN "Years to decades"
        ELSE "Years"

(***************************************************************************)
(* estimateTimeToCrack, variant 2: charsetSize ^ length guesses at 10^9    *)
(* per second.  The numbers exceed the checker's integers, so a number is  *)
(* a sequence of base-10000 digits, least significant first.  The code     *)
(* computes in IEEE doubles; here the quotients are exact, which gives the *)
(* same label unless a quotient lies within rounding error of a threshold. *)
(***************************************************************************)
RECURSIVE bigMulSmall(_, _, _)
\* a * k + carry, for 0 <= k <= 200000
bigMulSmall(a, k, carry) ==
    IF a = << >>
    THEN IF carry = 0 THEN << >>
         ELSE << carry % 10000 >> \o bigMulSmall(<< >>, k, carry \div 10000)
    ELSE LET t == Head(a) * k + carry
         IN  << t % 10000 >> \o bigMulSmall(Tail(a), k, t \div 10000)

RECURSIVE bigAddCarry(_, _, _)
bigAddCarry(a, b, carry) ==
    IF a = << >> /\ b = << >>
    THEN IF carry = 0 THEN << >> ELSE << carry >>
    ELSE LET x == IF a = << >> THEN 0 ELSE Head(a)
             y == IF b = << >> THEN 0 ELSE Head(b)
             t == x + y + carry
         IN  << t % 10000 >>
             \o bigAddCarry(IF a = << >> THEN a ELSE Tail(a),
                            IF b = << >> THEN b ELSE Tail(b), t \div 10000)

bigAdd(a, b) == bigAddCarry(a, b, 0)

RECURSIVE bigDivFrom(_, _, _, _)
\* The digits 1..i of the quotient a / k, rem being the remainder carried
\* down from the digits above i; 1 <= k <= 200000.
bigDivFrom(a, k, i, rem) ==
    IF i = 0 THEN << >>
    ELSE LET t == rem * 10000 + a[i]
         IN  Append(bigDivFrom(a, k, i - 1, t % k), t \div k)

\* Math.floor(a / k)
bigDivSmall(a, k) == bigDivFrom(a, k, Len(a), 0)

\* a < b
bigLess(a, b) ==
    LET digit(x, i) == IF i <= Len(x) THEN x[i] ELSE 0
        differ == {i \in 1..Max(Len(a), Len(b)) : digit(a, i) # digit(b, i)}
    IN  /\ differ # {}
        /\ LET top == CHOOSE i \in differ : \A j \in differ : i >= j
           IN  digit(a, top) < digit(b, top)

RECURSIVE bigProduct(_)
bigProduct(factors) ==
    IF factors = << >> THEN << 1 >>
    ELSE bigMulSmall(bigProduct(Tail(factors)), Head(factors), 0)

RECURSIVE bigDivAll(_, _)
bigDivAll(a, factors) ==
    IF factors = << >> THEN a
    ELSE bigDivAll(bigDivSmall(a, Head(factors)), Tail(factors))

RECURSIVE bigToNumber(_)
\* The value of a number known to be small.
bigToNumber(a) ==
    IF a = << >> THEN 0 ELSE Head(a) + 10000 * bigToNumber(Tail(a))

RECURSIVE mathPow(_, _)
\* Math.pow(base, exponent) for integers
mathPow(base, exponent) ==
    IF exponent = 0 THEN << 1 >>
    ELSE bigMulSmall(mathPow(base, exponent - 1), base, 0)

\* Math.round(total / product of factors): floor((2 total + d) / (2 d))
mathRound(total, factors) ==
    bigToNumber(bigDivAll(bigAdd(bigMulSmall(total, 2, 0), bigProduct(factors)),
                          << 2 >> \o factors))

\* guessesPerSecond = 1000000000, as factors
guessesPerSecond == << 100000, 10000 >>

\* Mutant of charsetSizeOf: the fourth class is taken to have 33 signs.
charsetSizeOf_other33(p) ==
    (IF testLower(p) THEN 26 ELSE 0) + (IF testUpper(p) THEN 26 ELSE 0)
    + (IF testDigit(p) THEN 10 ELSE 0) + (IF testNonAlnum(p) THEN 33 ELSE 0)

\* charsetSize after the four tests
charsetSizeOf(p) ==
    (IF testLower(p) THEN 26 ELSE 0) + (IF testUpper(p) THEN 26 ELSE 0)
    + (IF testDigit(p) THEN 10 ELSE 0) + (IF testNonAlnum(p) THEN 32 ELSE 0)

estimateTimeToCrackTr(p, s) ==
    LET totalCombinations == mathPow(charsetSizeOf(p), Len(p))
        perSecond == guessesPerSecond
        perMinute == perSecond \o << 60 >>
        perHour   == perMinute \o << 60 >>
        perDay    == perHour \o << 24 >>
        perMonth  == perDay \o << 30 >>
        perYear   == perDay \o << 365 >>
        below(factors) == bigLess(totalCombinations, bigProduct(factors))
        rounded(factors) == ToString(mathRound(totalCombinations, factors))
    IN  IF Len(p) = 0 THEN "Parola girmediniz"
        ELSE IF below(perSecond) THEN "1 saniyeden az"
        ELSE IF below(perSecond \o << 60 >>) THEN rounded(perSecond) \o " saniye"
        ELSE IF below(perMinute \o << 60 >>) THEN rounded(perMinute) \o " dakika"
        ELSE IF below(perHour \o << 24 >>) THEN rounded(perHour) \o " saat"
        ELSE IF below(perDay \o << 30 >>) THEN rounded(perDay) \o " gun"
        ELSE IF below(perMonth \o << 12 >>) THEN rounded(perMonth) \o " ay"
        ELSE IF below(perYear \o << 100 >>) THEN rounded(perYear) \o " yil"
        ELSE IF below(perYear \o << 1000 >>)
        THEN ToString(mathRound(totalCombinations, perYear \o << 10 >>) * 10) \o " yil"
        ELSE "binlerce yil"

(***************************************************************************)
(* The passwords the calls are made on.                                    *)
(***************************************************************************)
\* Bound of the input space: every string over Alphabet of at most this length.
MaxLen == 3

\* 'a' 'b' 'c' (a run of codes), 'A', '1', '!' (a listed special sign) and ' '
\* (outside [a-zA-Z0-9] yet not a listed special sign).
Alphabet == {97, 98, 99, 65, 49, 33, 32}

StringsOver(chars, n) == UNION { [1..k -> chars] : k \in 0..n }

\* String.prototype.toUpperCase on Basic Latin, used only to vary the inputs.
upperCode(c) == IF isLower(c) THEN c - 32 ELSE c

toUpperCase(s) == [k \in 1..Len(s) |-> upperCode(s[k])]

\* Every other letter in upper case, starting with the second: 'aBcDeF'.
alternateCase(s) == [k \in 1..Len(s) |-> IF k % 2 = 0 THEN upperCode(s[k]) ELSE s[k]]

\* The passwords of the documented scenarios and some longer ones.
Scenarios ==
    { <<97, 97, 97, 97, 97, 97, 97, 97>>,                           \* 'aaaaaaaa'
      <<84, 114, 48, 117, 98, 52, 100, 111, 114, 38, 57, 90, 120>>,  \* 'Tr0ub4dor&9Zx'
      <<97, 98, 99, 100, 101, 102, 103, 104>>,                      \* 'abcdefgh'
      <<122, 107, 119, 109, 113, 104, 118, 121, 102, 106>>,         \* 'zkwmqhvyfj'
      <<57, 56, 55, 54, 53>>,                                       \* '98765'
      <<75, 126, 109, 52, 126, 119, 81, 126, 55, 122, 126, 80>>,    \* 'K~m4~wQ~7z~P'
      <<104, 101, 108, 108, 111, 111, 111, 49, 50, 51>>,            \* 'hellooo123'
      <<88, 107, 55, 35, 109, 81, 119, 50>>                         \* 'Xk7#mQw2'
    }

Range(list) == { list[k] : k \in 1..Len(list) }

Dictionary == Range(WEAK_PASSWORDS) \cup Range(SEQUENTIAL_PATTERNS) \cup Scenarios

Words ==
    Dictionary \cup { toUpperCase(w) : w \in Dictionary }
               \cup { alternateCase(w) : w \in Dictionary }

\* What is put before and after a word: nothing, 'Z', '7' or '#'.
Affixes == { << >>, <<90>>, <<55>>, <<35>> }

Inputs ==
    StringsOver(Alphabet, MaxLen)
    \cup { pre \o w \o suf : w \in Words, pre \in Affixes, suf \in Affixes }

(***************************************************************************)
(* The calls.  The checker classes hold no state: a call reads its         *)
(* argument only, and may be made again, in either variant, at any time.   *)
(***************************************************************************)
NoAnalysis == [ returned |-> FALSE ]
NoLevels == << >>
NoEstimate == << >>

\* gen while generateRandomPassword is not being called.
NoGeneration == [ pc |-> "none" ]

\* app, strengthMeter and ui where no page is loaded.
NoApp == [ loaded |-> FALSE ]
NoMeter == [ constructed |-> FALSE ]
NoUI == [ constructed |-> FALSE ]

\* The largest score: the upper end of the clamp.
MaxScore == 100

Init ==
    /\ password \in Inputs
    /\ pc = "idle"
    /\ validationResults = NotRun
    /\ analysis = NoAnalysis
    /\ score = <<0, 0>>
    /\ level = NoLevels
    /\ timeToCrack = NoEstimate
    /\ gen = NoGeneration
    /\ app = NoApp
    /\ strengthMeter = NoMeter
    /\ ui = NoUI

\* PasswordChecker.analyze(password), variant 1.
Analyze ==
    /\ LET call == analyzeCall(password)
       IN  /\ validationResults' = call.validationResults
           /\ analysis' = call.returned
    /\ pc' = "variant1"
    /\ UNCHANGED <<password, score, level, timeToCrack, gen, app, strengthMeter, ui>>

\* PasswordChecker.analyze(password), variant 2.
AnalyzeTr ==
    /\ LET call == analyzeCallTr(password)
       IN  /\ validationResults' = call.validationResults
           /\ analysis' = call.returned
    /\ pc' = "variant2"
    /\ UNCHANGED <<password, score, level, timeToCrack, gen, app, strengthMeter, ui>>

Next == Analyze \/ AnalyzeTr

Spec == Init /\ [][Next]_vars

(***************************************************************************)
(* determineStrengthLevel on its own, over its whole documented domain     *)
(* 0..100: two scores are drawn and the level of each is computed.         *)
(***************************************************************************)
InitLevel ==
    /\ score \in (0..MaxScore) \X (0..MaxScore)
    /\ level = NoLevels
    /\ pc = "idle"
    /\ password = << >>
    /\ validationResults = NotRun
    /\ analysis = NoAnalysis
    /\ timeToCrack = NoEstimate
    /\ gen = NoGeneration
    /\ app = NoApp
    /\ strengthMeter = NoMeter
    /\ ui = NoUI

DetermineLevel ==
    /\ level' = << determineStrengthLevel(score[1]), determineStrengthLevel(score[2]) >>
    /\ pc' = "variant1"
    /\ UNCHANGED <<password, validationResults, analysis, score, timeToCrack, gen, app, strengthMeter, ui>>

DetermineLevelTr ==
    /\ level' = << determineStrengthLevelTr(score[1]), determineStrengthLevelTr(score[2]) >>
    /\ pc' = "variant2"
    /\ UNCHANGED <<password, validationResults, analysis, score, timeToCrack, gen, app, strengthMeter, ui>>

NextLevel == DetermineLevel \/ DetermineLevelTr

SpecLevel == InitLevel /\ [][NextLevel]_vars

(***************************************************************************)
(* Properties of the aggregator.                                           *)
(***************************************************************************)
Called == pc # "idle"
RulesRan == Called /\ validationResults # NotRun

\* C1: in both variants the score analyze returns, for any password, is an
\* integer between 0 and 100.
C1_ScoreInRange == Called => analysis.score \in 0..100

\* C1 witness: a call whose raw total was negative and was clamped to 0.
C1_Witness ==
    /\ RulesRan
    /\ totalScoreOf(validationResults) < 0
    /\ analysis.score = 0

\* The sum of the six bonuses and of the three penalties, taken from the rule
\* functions of the variant that ran.
BonusSum ==
    IF pc = "variant1"
    THEN checkLength(password) + hasLowercase(password) + hasUppercase(password)
         + hasNumbers(password) + hasSpecialChars(password)
         + checkCharacterVariety(password)
    ELSE Validators_checkLength(password) + Validators_hasLowercase(password)
         + Validators_hasUppercase(password) + Validators_hasNumbers(password)
         + Validators_hasSpecialChars(password)
         + Validators_checkCharacterVariety(password)

PenaltySum ==
    IF pc = "variant1"
    THEN checkRepeatingChars(password) + checkWeakPassword(password)
         + checkSequentialChars(password)
    ELSE Validators_checkRepeatingChars(password) + Validators_checkWeakPassword(password)
         + Validators_checkSequentialChars(password)

\* C2: for a non-empty password the score is max(0, min(100, B - P)), B the sum
\* of the length, lowercase, uppercase, digit, special and variety
\* contributions and P the sum of the repeating, weak and sequential penalties.
C2_ScoreIsClampedSum ==
    (Called /\ password # << >>) =>
        LET raw == BonusSum - PenaltySum
        IN  analysis.score = (IF raw < 0 THEN 0 ELSE IF raw > 100 THEN 100 ELSE raw)

\* C2 witness: a call with bonuses and all three penalties at work and a
\* result strictly inside the clamp.
C2_Witness ==
    /\ RulesRan
    /\ validationResults.repeatingCharsPenalty > 0
    /\ validationResults.weakPasswordPenalty > 0
    /\ validationResults.sequentialCharsPenalty > 0
    /\ analysis.score > 0
    /\ analysis.score = BonusSum - PenaltySum

\* C3: every call analyze("") returns the fixed EMPTY result (score 0, level
\* EMPTY, the eight criteria false, one feedback message, one suggestion) and
\* runs no rule.
C3_EmptyResult ==
    (Called /\ password = << >>) =>
        /\ analysis.score = 0
        /\ analysis.level = "EMPTY"
        /\ \A c \in DOMAIN analysis.criteria : analysis.criteria[c] = FALSE
        /\ Cardinality(DOMAIN analysis.criteria) = 8
        /\ Len(analysis.feedback) = 1
        /\ Len(analysis.suggestions) = 1
        /\ analysis = (IF pc = "variant1" THEN getEmptyAnalysis ELSE getEmptyAnalysisTr)
        /\ validationResults = NotRun

\* C3 witness: analyze("") has returned.
C3_Witness == Called /\ password = << >> /\ analysis.level = "EMPTY"

(***************************************************************************)
(* Properties of the level mapping (under SpecLevel).                      *)
(***************************************************************************)
\* The position of a level in EMPTY < VERY_WEAK < WEAK < MEDIUM < STRONG < VERY_STRONG.
LevelRank(l) == CHOOSE k \in 1..Len(StrengthLevel) : StrengthLevel[k] = l

LevelsComputed == pc # "idle" /\ level # NoLevels

\* C4: in each variant determineStrengthLevel is total on 0..100 and
\* non-decreasing (the level of s is never above the level of t when s < t),
\* rises by at most one step from a score to the next, so that no level is
\* skipped at a threshold, and takes each of the six levels.
C4_LevelMonotoneStep ==
    LevelsComputed =>
        /\ level[1] \in Range(StrengthLevel)
        /\ level[2] \in Range(StrengthLevel)
        /\ score[1] < score[2] => LevelRank(level[1]) <= LevelRank(level[2])
        /\ score[2] = score[1] + 1 => LevelRank(level[2]) <= LevelRank(level[1]) + 1
        /\ (score[1] = 0 /\ score[2] = MaxScore) =>
               (level[1] = "EMPTY" /\ level[2] = "VERY_STRONG")

\* C4 witness: the two scores around a threshold of variant 2 got two
\* neighbouring levels.
C4_Witness ==
    /\ LevelsComputed
    /\ pc = "variant2"
    /\ score = <<84, 85>>
    /\ level = <<"STRONG", "VERY_STRONG">>

(***************************************************************************)
(* Properties of the rule functions (under Spec).                          *)
(***************************************************************************)
\* The texts of the length suggestion, by variant.
LengthSuggestion ==
    IF pc = "variant1"
    THEN "* Increase length to at least 12 characters"
    ELSE "* Parola uzunlugunu en az 12 karaktere cikarin"

\* C5: for a non-empty password criteria.length is true only in the top
\* length band (12 characters or more, contribution 30), and the suggestion
\* to increase the length to at least 12 characters is emitted for every
\* password shorter than 12 characters.
C5_LengthCriterionTopBand ==
    (Called /\ password # << >>) =>
        /\ analysis.criteria.length =>
               (Len(password) >= 12 /\ validationResults.length = 30)
        /\ Len(password) < 12 => LengthSuggestion \in Range(analysis.suggestions)

\* Some character of the password is outside [a-zA-Z0-9].
HasNonAlnum == \E k \in 1..Len(password) : ~isAlnum(password[k])

\* C6: the special-character contribution is 15, and criteria.hasSpecialChars
\* true, exactly when the password has a character outside [a-zA-Z0-9];
\* otherwise it is 0.
C6_SpecialIffNonAlnum ==
    RulesRan =>
        /\ validationResults.hasSpecialChars = (IF HasNonAlnum THEN 15 ELSE 0)
        /\ analysis.criteria.hasSpecialChars = HasNonAlnum

\* w occurs in s, said with SubSeq.
IsSubstring(w, s) ==
    \E i \in 1..(Len(s) - Len(w) + 1) : SubSeq(s, i, i + Len(w) - 1) = w

WeakList == IF pc = "variant1" THEN weakPasswords ELSE WEAK_PASSWORDS

\* C7: the weak-password penalty is 20 when the lower-case password equals a
\* list entry, otherwise 15 when it contains an entry of length >= 4,
\* otherwise 0; criteria.notWeakPassword is false in the first two cases.
C7_WeakPenalty ==
    RulesRan =>
        LET lower     == toLowerCase(password)
            exact     == \E w \in Range(WeakList) : w = lower
            contained == \E w \in Range(WeakList) : Len(w) >= 4 /\ IsSubstring(w, lower)
        IN  /\ validationResults.weakPasswordPenalty =
                   (IF exact THEN 20 ELSE IF contained THEN 15 ELSE 0)
            /\ (exact \/ contained) => ~analysis.criteria.notWeakPassword

\* C7 witness: a password with upper-case letters that only contains a list
\* entry got the penalty 15 and fails the criterion.
C7_Witness ==
    /\ RulesRan
    /\ toLowerCase(password) # password
    /\ validationResults.weakPasswordPenalty = 15
    /\ ~analysis.criteria.notWeakPassword

\* The number of positions that are the 3rd or a later character of a run of
\* identical adjacent characters.
RunTailCount(p) ==
    Cardinality({ i \in 3..Len(p) : p[i] = p[i - 1] /\ p[i - 1] = p[i - 2] })

OneCharRepeated(p) == Len(p) >= 3 /\ \A i \in 1..Len(p) : p[i] = p[1]

\* C8: the repeating-character penalty is min(15, 5 * k), k the number of
\* positions that are the 3rd or a later character of a run; one character
\* repeated n >= 3 times has the penalty min(15, 5 * (n - 2)) > 0 and fails
\* noRepeatingChars; a password with no run of 3 has penalty 0.
C8_RepeatingPenalty ==
    RulesRan =>
        LET k   == RunTailCount(password)
            pen == validationResults.repeatingCharsPenalty
        IN  /\ pen = (IF 5 * k > 15 THEN 15 ELSE 5 * k)
            /\ k = 0 => (pen = 0 /\ analysis.criteria.noRepeatingChars)
            /\ OneCharRepeated(password) =>
                   /\ pen = (IF 5 * (Len(password) - 2) > 15
                             THEN 15 ELSE 5 * (Len(password) - 2))
                   /\ pen > 0
                   /\ ~analysis.criteria.noRepeatingChars

\* C8 witness: one character repeated often enough for the cap to cut.
C8_Witness ==
    /\ RulesRan
    /\ OneCharRepeated(password)
    /\ 5 * (Len(password) - 2) > 15
    /\ validationResults.repeatingCharsPenalty = 15

PatternList == IF pc = "variant1" THEN sequentialPatterns ELSE SEQUENTIAL_PATTERNS

\* m: the number of listed patterns the lower-case password contains.
PatternCount(p) ==
    Cardinality({ k \in 1..Len(PatternList) : IsSubstring(PatternList[k], toLowerCase(p)) })

\* r: 1 when three adjacent characters step by +1, +1 or by -1, -1.
RunFlag(p) ==
    IF \E i \in 1..(Len(p) - 2) :
           \/ (p[i + 1] - p[i] = 1 /\ p[i + 2] - p[i + 1] = 1)
           \/ (p[i] - p[i + 1] = 1 /\ p[i + 1] - p[i + 2] = 1)
    THEN 1 ELSE 0

\* C9: the sequential penalty is min(15, 10 * m + 5 * r); a password that
\* contains a listed pattern case-insensitively or a 3-run of adjacent codes
\* fails noSequentialChars.
C9_SequentialPenalty ==
    RulesRan =>
        LET m   == PatternCount(password)
            r   == RunFlag(password)
            pen == validationResults.sequentialCharsPenalty
        IN  /\ pen = (IF 10 * m + 5 * r > 15 THEN 15 ELSE 10 * m + 5 * r)
            /\ (m > 0 \/ r > 0) => ~analysis.criteria.noSequentialChars

\* C9 witness: a pattern found only case-insensitively, with no 3-run of
\* codes: the penalty is the 10 of the one pattern.
C9_Witness ==
    /\ RulesRan
    /\ PatternCount(password) = 1
    /\ RunFlag(password) = 0
    /\ validationResults.sequentialCharsPenalty = 10
    /\ ~analysis.criteria.noSequentialChars

\* The number of classes the presence rules report: the true values among
\* hasLowercase, hasUppercase, hasNumbers and hasSpecialChars.
ReportedClasses ==
    LET one(b) == IF b THEN 1 ELSE 0
    IN  one(analysis.criteria.hasLowercase) + one(analysis.criteria.hasUppercase)
        + one(analysis.criteria.hasNumbers) + one(analysis.criteria.hasSpecialChars)

\* C10: the variety bonus is fixed by the number n of classes the presence
\* rules report: 10 for n = 4, 5 for n = 3, 2 for n = 2, 0 for n <= 1.
C10_VarietyFromCriteria ==
    RulesRan =>
        validationResults.varietyBonus =
            (IF ReportedClasses = 4 THEN 10
             ELSE IF ReportedClasses = 3 THEN 5
             ELSE IF ReportedClasses = 2 THEN 2
             ELSE 0)

(***************************************************************************)
(* Properties of the result as a whole (under Spec).                       *)
(***************************************************************************)
\* The lower-case password is an entry of the weak list of the variant that ran.
ExactWeakMatch == \E w \in Range(WeakList) : w = toLowerCase(password)

\* C11: a password whose lower-case form equals a weak-list entry, in any mix
\* of upper and lower case, gets the weak penalty 20, fails notWeakPassword
\* and has a level of at most WEAK, in both variants.
C11_ExactWeakAtMostWeak ==
    (RulesRan /\ ExactWeakMatch) =>
        /\ validationResults.weakPasswordPenalty = 20
        /\ ~analysis.criteria.notWeakPassword
        /\ analysis.level \in {"EMPTY", "VERY_WEAK", "WEAK"}

\* C11 witness: a list entry written in mixed case, with three character
\* classes, was analysed by variant 1 and came out WEAK.
C11_Witness ==
    /\ RulesRan
    /\ pc = "variant1"
    /\ ExactWeakMatch
    /\ toLowerCase(password) # password
    /\ analysis.criteria.hasLowercase
    /\ analysis.criteria.hasUppercase
    /\ analysis.criteria.hasNumbers
    /\ analysis.level = "WEAK"

AllCriteriaTrue == \A c \in DOMAIN analysis.criteria : analysis.criteria[c]

\* C12: when all eight criteria are true the level is STRONG or VERY_STRONG,
\* in both variants.
C12_AllCriteriaStrong ==
    (RulesRan /\ AllCriteriaTrue) => analysis.level \in {"STRONG", "VERY_STRONG"}

\* C12 witness: all eight criteria true in the 8..11 length band, where
\* variant 2 gives STRONG.
C12_Witness ==
    /\ RulesRan
    /\ pc = "variant2"
    /\ AllCriteriaTrue
    /\ Len(password) < 12
    /\ analysis.level = "STRONG"

(***************************************************************************)
(* The texts of the two variants, by criterion, used to state what the     *)
(* feedback and suggestions lists must contain.                            *)
(***************************************************************************)
FeedbackOrder ==
    << "hasLowercase", "hasUppercase", "hasNumbers", "hasSpecialChars",
       "noRepeatingChars", "notWeakPassword", "noSequentialChars" >>

SuggestionOrder == << "length" >> \o FeedbackOrder

FeedbackText ==
    [ variant1 |->
        [ short    |-> << "Password is too short (",
                          " characters). Minimum 8 characters recommended." >>,
          medium   |-> << "Password is medium length (",
                          " characters). 12+ characters is more secure." >>,
          adequate |-> << "Good password length (", " characters)." >>,
          hasLowercase      |-> "Missing lowercase letters. Add some lowercase letters (a-z).",
          hasUppercase      |-> "Missing uppercase letters. Add some uppercase letters (A-Z).",
          hasNumbers        |-> "Missing numbers. Add some numbers (0-9).",
          hasSpecialChars   |-> "Missing special characters. Add some special characters (!@#$%^&* etc.).",
          noRepeatingChars  |-> "Contains repeating characters. Try to avoid character repetitions.",
          notWeakPassword   |-> "Password contains common words or patterns.",
          noSequentialChars |-> "Contains sequential characters (like abc, 123).",
          strongest |-> "Excellent! Your password meets most security criteria.",
          middle    |-> "Good start! Your password could be stronger with more variety." ],
      variant2 |->
        [ short    |-> << "Parolaniz cok kisa (",
                          " karakter). En az 8 karakter onerilir." >>,
          medium   |-> << "Parolaniz orta uzunlukta (",
                          " karakter). 12+ karakter daha guvenlidir." >>,
          adequate |-> << "Parolaniz yeterli uzunlukta (", " karakter)." >>,
          hasLowercase      |-> "Kucuk harf icermiyor. Kucuk harf ekleyin.",
          hasUppercase      |-> "Buyuk harf icermiyor. Buyuk harf ekleyin.",
          hasNumbers        |-> "Rakam icermiyor. Rakam ekleyin.",
          hasSpecialChars   |-> "Ozel karakter icermiyor. Ozel karakter ekleyin.",
          noRepeatingChars  |-> "Tekrarlanan karakterler iceriyor. Tekrarlari azaltin.",
          notWeakPassword   |-> "Yaygin kullanilan bir parola veya benzeri iceriyor.",
          noSequentialChars |-> "Sirali karakterler iceriyor (abc, 123 gibi).",
          strongest |-> "Harika! Parolaniz cogu guvenlik kriterini karsiliyor.",
          middle    |-> "Iyi baslangic! Ancak daha fazla guvenlik icin gelistirilebilir." ] ]

SuggestionText ==
    [ variant1 |->
        [ header            |-> "To strengthen your password:",
          length            |-> "* Increase length to at least 12 characters",
          hasLowercase      |-> "* Add lowercase letters (a-z)",
          hasUppercase      |-> "* Add uppercase letters (A-Z)",
          hasNumbers        |-> "* Add numbers (0-9)",
          hasSpecialChars   |-> "* Add special characters (!@#$%^&* etc.)",
          noRepeatingChars  |-> "* Avoid repeating the same character multiple times",
          notWeakPassword   |-> "* Avoid common words and predictable patterns",
          noSequentialChars |-> "* Avoid sequential characters (abc, 123, etc.)",
          first             |-> "Good job! Your password has decent security.",
          second            |-> "Excellent! Your password is very secure." ],
      variant2 |->
        [ header            |-> "Parolanizi guclendirmek icin asagidaki onerileri uygulayin:",
          length            |-> "* Parola uzunlugunu en az 12 karaktere cikarin",
          hasLowercase      |-> "* En az bir kucuk harf ekleyin (a-z)",
          hasUppercase      |-> "* En az bir buyuk harf ekleyin (A-Z)",
          hasNumbers        |-> "* En az bir rakam ekleyin (0-9)",
          hasSpecialChars   |-> "* En az bir ozel karakter ekleyin (!@#$%^&* gibi)",
          noRepeatingChars  |-> "* Ayni karakteri arka arkaya tekrarlamaktan kacinin",
          notWeakPassword   |-> "* Yaygin kullanilan kelimeler ve parolalari kullanmayin",
          noSequentialChars |-> "* Sirali karakter dizilerinden kacinin (abc, 123 gibi)",
          first             |-> "Guzel! Parolaniz iyi bir guvenlik seviyesine sahip.",
          second            |-> "Mukemmel! Parolaniz cok guclu gorunuyor." ] ]

\* The names in order whose criterion is false in the returned result.
FalseCriteria(order) ==
    LET isFalse(c) == ~analysis.criteria[c]
    IN  SelectSeq(order, isFalse)

\* The number t of true criteria among all eight.
TrueCount == Cardinality({c \in DOMAIN analysis.criteria : analysis.criteria[c]})

LengthBand ==
    IF Len(password) < 8 THEN "short"
    ELSE IF Len(password) <= 11 THEN "medium"
    ELSE "adequate"

ExpectedFeedback ==
    LET text   == FeedbackText[pc]
        unmet  == FalseCriteria(FeedbackOrder)
        band   == text[LengthBand]
    IN  << band[1] \o ToString(Len(password)) \o band[2] >>
        \o [i \in 1..Len(unmet) |-> text[unmet[i]]]
        \o (IF TrueCount >= 6 THEN << text.strongest >>
            ELSE IF TrueCount >= 4 THEN << text.middle >>
            ELSE << >>)

\* C13: for a non-empty password the feedback is one length-band message
\* citing the length (short below 8, medium 8..11, adequate from 12), then one
\* message per false criterion among hasLowercase, hasUppercase, hasNumbers,
\* hasSpecialChars, noRepeatingChars, notWeakPassword, noSequentialChars in
\* that order, then the closing message chosen by the number of true criteria
\* (6 or more strongest, 4 or 5 middle, fewer none).
C13_FeedbackLayout == RulesRan => analysis.feedback = ExpectedFeedback

\* C13 witness: variant 1 analysed a medium-length password with exactly five
\* true criteria, an unmet class and an unmet penalty criterion.
C13_Witness ==
    /\ RulesRan
    /\ pc = "variant1"
    /\ LengthBand = "medium"
    /\ TrueCount = 5
    /\ ~analysis.criteria.hasSpecialChars
    /\ ~analysis.criteria.notWeakPassword
    /\ Len(analysis.feedback) = 5

ExpectedSuggestions ==
    LET text  == SuggestionText[pc]
        unmet == FalseCriteria(SuggestionOrder)
    IN  (IF analysis.score < 50 THEN << text.header >> ELSE << >>)
        \o [i \in 1..Len(unmet) |-> text[unmet[i]]]
        \o (IF analysis.score >= 70 THEN << text.first >> ELSE << >>)
        \o (IF analysis.score >= 85 THEN << text.second >> ELSE << >>)

\* C14: for a non-empty password the suggestions are the header iff the score
\* is below 50, then one bullet per false criterion in the order length,
\* hasLowercase, hasUppercase, hasNumbers, hasSpecialChars, noRepeatingChars,
\* notWeakPassword, noSequentialChars, then the first encouragement iff the
\* score is at least 70 and the second iff it is at least 85.
C14_SuggestionsLayout == RulesRan => analysis.suggestions = ExpectedSuggestions

\* C14 witness: variant 2 analysed a short password without lowercase letters:
\* header, length bullet, lowercase bullet.
C14_Witness ==
    /\ RulesRan
    /\ pc = "variant2"
    /\ analysis.score < 50
    /\ ~analysis.criteria.length
    /\ ~analysis.criteria.hasLowercase
    /\ Len(analysis.suggestions) >= 3

\* C15: for a non-empty password neither the feedback nor the suggestions are
\* empty; no password has a score in 50..69 with all eight criteria true.
C15_ListsNotEmpty ==
    RulesRan =>
        /\ Len(analysis.feedback) > 0
        /\ Len(analysis.suggestions) > 0
        /\ ~(analysis.score \in 50..69 /\ AllCriteriaTrue)

\* C15 witness: all eight criteria true, so no bullet and no header: the only
\* suggestion is the encouragement of score 70 and above.
C15_Witness ==
    /\ RulesRan
    /\ pc = "variant1"
    /\ AllCriteriaTrue
    /\ analysis.score = 75
    /\ Len(analysis.suggestions) = 1

(***************************************************************************)
(* estimateTimeToCrack on its own: a password and two scores s <= t of the *)
(* documented domain 0..100 are drawn, and either variant estimates both.  *)
(***************************************************************************)
\* The first n characters of pattern repeated.
Cycle(pattern, n) == [i \in 1..n |-> pattern[((i - 1) % Len(pattern)) + 1]]

\* Lengths on both sides of the estimator's length tests (6, 12, 16).
CrackLengths == {1, 5, 6, 11, 12, 15, 16}

\* Nothing, blanks only, 'aB3#aB3#...' of each length, and ' abcdef '.
CrackInputs ==
    { << >>, << 32 >>, << 32, 9, 32 >>, << 32, 97, 98, 99, 100, 101, 102, 32 >> }
    \cup { Cycle(<< 97, 66, 51, 35 >>, n) : n \in CrackLengths }

InitCrack ==
    /\ password \in CrackInputs
    /\ score \in {st \in (0..MaxScore) \X (0..MaxScore) : st[1] <= st[2]}
    /\ timeToCrack = NoEstimate
    /\ gen = NoGeneration
    /\ app = NoApp
    /\ strengthMeter = NoMeter
    /\ ui = NoUI
    /\ pc = "idle"
    /\ validationResults = NotRun
    /\ analysis = NoAnalysis
    /\ level = NoLevels

\* PasswordChecker.estimateTimeToCrack(password, score), variant 1.
EstimateTimeToCrack ==
    /\ timeToCrack' = << estimateTimeToCrack(password, score[1]),
                         estimateTimeToCrack(password, score[2]) >>
    /\ pc' = "variant1"
    /\ UNCHANGED <<password, validationResults, analysis, score, level, gen, app, strengthMeter, ui>>

\* PasswordChecker.estimateTimeToCrack(password, score), variant 2.
EstimateTimeToCrackTr ==
    /\ timeToCrack' = << estimateTimeToCrackTr(password, score[1]),
                         estimateTimeToCrackTr(password, score[2]) >>
    /\ pc' = "variant2"
    /\ UNCHANGED <<password, validationResults, analysis, score, level, gen, app, strengthMeter, ui>>

NextCrack == EstimateTimeToCrack \/ EstimateTimeToCrackTr

SpecCrack == InitCrack /\ [][NextCrack]_vars

Estimated == timeToCrack # NoEstimate

\* The 'no password entered' text of each variant.
Sentinel == [ variant1 |-> "Please enter a password", variant2 |-> "Parola girmediniz" ]

\* C16: for the empty password and every score, estimateTimeToCrack returns
\* the fixed 'no password entered' text of its variant, in both variants.
C16_EmptySentinel ==
    (Estimated /\ password = << >>) =>
        \A i \in 1..2 : timeToCrack[i] = Sentinel[pc]

\* C16 witness: variant 2 was asked about the empty password with score 100.
C16_Witness ==
    /\ Estimated
    /\ password = << >>
    /\ pc = "variant2"
    /\ score[2] = 100
    /\ timeToCrack[2] = "Parola girmediniz"

\* The duration labels of the banded estimator, shortest first.
DurationOrder ==
    << "Instantly", "Seconds", "Minutes", "Hours", "Days", "Weeks", "Months",
       "Years", "Years to decades", "Decades" >>

DurationRank(label) == CHOOSE k \in 1..Len(DurationOrder) : DurationOrder[k] = label

Blank(p) == \A i \in 1..Len(p) : isWhiteSpace(p[i])

\* The label the banded estimator is to give: bands of ten from 20 to 89.
BandLabel(p, s) ==
    IF s < 20 \/ Len(p) < 6 THEN "Instantly"
    ELSE IF s < 90 THEN DurationOrder[s \div 10]
    ELSE IF Len(p) >= 16 THEN "Decades"
    ELSE IF Len(p) >= 12 THEN "Years to decades"
    ELSE "Years"

\* C17: the banded estimator, for a password that is not blank and a score in
\* 0..100, gives 'Instantly' if the score is below 20 or the length below 6,
\* else the label of the score's band (Seconds <30, Minutes <40, Hours <50,
\* Days <60, Weeks <70, Months <80, Years <90), and from 90 'Decades' for 16
\* or more characters, 'Years to decades' for 12 or more, else 'Years'; the
\* label never gets shorter as the score grows.
C17_BandedEstimate ==
    (Estimated /\ pc = "variant1" /\ ~Blank(password)) =>
        /\ \A i \in 1..2 : timeToCrack[i] = BandLabel(password, score[i])
        /\ DurationRank(timeToCrack[1]) <= DurationRank(timeToCrack[2])

\* C17 witness: a 12-character password at the scores 89 and 90.
C17_Witness ==
    /\ Estimated
    /\ pc = "variant1"
    /\ Len(password) = 12
    /\ score = << 89, 90 >>
    /\ timeToCrack = << "Years", "Years to decades" >>

(***************************************************************************)
(* The two variants side by side (under Spec).                             *)
(***************************************************************************)
\* What the other variant returns for the password of the call that was made.
OtherVariant == IF pc = "variant1" THEN analyzeTr(password) ELSE analyze(password)

\* C19: the two variants return the same score and the same eight criteria
\* for every password.
C19_VariantsAgree ==
    Called => /\ analysis.score = OtherVariant.score
              /\ analysis.criteria = OtherVariant.criteria

\* The entries only the lists of Validators.ts have.
ExtraEntries ==
    (Range(WEAK_PASSWORDS) \ Range(weakPasswords))
    \cup (Range(SEQUENTIAL_PATTERNS) \ Range(sequentialPatterns))

ContainsExtraEntry == \E w \in ExtraEntries : IsSubstring(w, toLowerCase(password))

ListIndependentCriteria ==
    { "length", "hasLowercase", "hasUppercase", "hasNumbers", "hasSpecialChars",
      "noRepeatingChars" }

\* C19 (amended): for every password the variants agree on the criteria
\* length, hasLowercase, hasUppercase, hasNumbers, hasSpecialChars and
\* noRepeatingChars, and the score of the variant that calls Validators is
\* never the higher one; they agree on the score and on all eight criteria
\* whenever the lower-case password contains no entry that only the lists of
\* Validators.ts have.
C19_AgreeUpToListEntries ==
    Called =>
        LET v1 == IF pc = "variant1" THEN analysis ELSE OtherVariant
            v2 == IF pc = "variant2" THEN analysis ELSE OtherVariant
        IN  /\ \A c \in ListIndependentCriteria : v1.criteria[c] = v2.criteria[c]
            /\ v2.score <= v1.score
            /\ ~ContainsExtraEntry => /\ v1.score = v2.score
                                      /\ v1.criteria = v2.criteria

\* C19 witness: variant 2 analysed a password with a weak word and a listed
\* pattern that both lists have, and the other variant gives the same result.
C19_Witness ==
    /\ RulesRan
    /\ pc = "variant2"
    /\ ~ContainsExtraEntry
    /\ validationResults.weakPasswordPenalty = 15
    /\ validationResults.sequentialCharsPenalty >= 10
    /\ analysis.score > 0
    /\ analysis.score = OtherVariant.score
    /\ analysis.criteria = OtherVariant.criteria

(***************************************************************************)
(* generateRandomPassword(length) of the application, step by step.  Every *)
(* Math.random() is a free choice; Math.floor(Math.random() * n) is any    *)
(* index 0..n-1.  For the character picks the choice is narrowed to the    *)
(* first and the last index, for the shuffle it is every index.            *)
(***************************************************************************)
\* Bound on the requested length.
MaxGenLen == 5

charset ==
    [ lowercase |-> [i \in 1..26 |-> 96 + i],
      uppercase |-> [i \in 1..26 |-> 64 + i],
      numbers   |-> [i \in 1..10 |-> 47 + i],
      \* '!@#$%^&*()_+-=[]{}|;:,.<>?'
      special   |-> << 33, 64, 35, 36, 37, 94, 38, 42, 40, 41, 95, 43, 45, 61,
                       91, 93, 123, 125, 124, 59, 58, 44, 46, 60, 62, 63 >> ]

allChars == charset.lowercase \o charset.uppercase \o charset.numbers \o charset.special

\* The values of Math.floor(Math.random() * n) tried for a character pick.
PickOutcomes(n) == {0, n - 1}

\* str[index], index being Math.floor(Math.random() * str.length)
getRandomChar(str, index) == str[index + 1]

\* Mutant of swap: array[i] = array[j] without the exchange.
swap_overwrite(array, i, j) == [array EXCEPT ![i + 1] = array[j + 1]]

\* [array[i], array[j]] = [array[j], array[i]]
swap(array, i, j) == [array EXCEPT ![i + 1] = array[j + 1], ![j + 1] = array[i + 1]]

InitGen ==
    /\ gen \in [ pc : {"lowercase"}, length : 0..MaxGenLen, password : {<< >>},
                 i : {0}, array : {<< >>}, result : {<< >>} ]
    /\ password = << >>
    /\ pc = "idle"
    /\ validationResults = NotRun
    /\ analysis = NoAnalysis
    /\ score = <<0, 0>>
    /\ level = NoLevels
    /\ timeToCrack = NoEstimate
    /\ app = NoApp
    /\ strengthMeter = NoMeter
    /\ ui = NoUI

\* password += getRandomChar(charset.lowercase)
PickLowercase ==
    /\ gen.pc = "lowercase"
    /\ \E index \in PickOutcomes(Len(charset.lowercase)) :
           gen' = [gen EXCEPT !.password = Append(@, getRandomChar(charset.lowercase, index)),
                              !.pc = "uppercase"]
    /\ UNCHANGED <<password, pc, validationResults, analysis, score, level, timeToCrack, app, strengthMeter, ui>>

\* password += getRandomChar(charset.uppercase)
PickUppercase ==
    /\ gen.pc = "uppercase"
    /\ \E index \in PickOutcomes(Len(charset.uppercase)) :
           gen' = [gen EXCEPT !.password = Append(@, getRandomChar(charset.uppercase, index)),
                              !.pc = "numbers"]
    /\ UNCHANGED <<password, pc, validationResults, analysis, score, level, timeToCrack, app, strengthMeter, ui>>

\* password += getRandomChar(charset.numbers)
PickNumber ==
    /\ gen.pc = "numbers"
    /\ \E index \in PickOutcomes(Len(charset.numbers)) :
           gen' = [gen EXCEPT !.password = Append(@, getRandomChar(charset.numbers, index)),
                              !.pc = "special"]
    /\ UNCHANGED <<password, pc, validationResults, analysis, score, level, timeToCrack, app, strengthMeter, ui>>

\* password += getRandomChar(charset.special); the loop that follows starts with i = 4
PickSpecial ==
    /\ gen.pc = "special"
    /\ \E index \in PickOutcomes(Len(charset.special)) :
           gen' = [gen EXCEPT !.password = Append(@, getRandomChar(charset.special, index)),
                              !.pc = "fill", !.i = 4]
    /\ UNCHANGED <<password, pc, validationResults, analysis, score, level, timeToCrack, app, strengthMeter, ui>>

\* for (let i = 4; i < length; i++) password += getRandomChar(allChars)
Fill ==
    /\ gen.pc = "fill"
    /\ gen.i < gen.length
    /\ \E index \in PickOutcomes(Len(allChars)) :
           gen' = [gen EXCEPT !.password = Append(@, getRandomChar(allChars, index)),
                              !.i = @ + 1]
    /\ UNCHANGED <<password, pc, validationResults, analysis, score, level, timeToCrack, app, strengthMeter, ui>>

\* The loop is left and shuffleString(password) is entered:
\* array = str.split(''), i = array.length - 1
CallShuffle ==
    /\ gen.pc = "fill"
    /\ ~(gen.i < gen.length)
    /\ gen' = [gen EXCEPT !.pc = "shuffle", !.array = gen.password,
                          !.i = Len(gen.password) - 1]
    /\ UNCHANGED <<password, pc, validationResults, analysis, score, level, timeToCrack, app, strengthMeter, ui>>

\* One turn of for (let i = array.length - 1; i > 0; i--)
ShuffleStep ==
    /\ gen.pc = "shuffle"
    /\ gen.i > 0
    /\ \E j \in 0..gen.i :
           gen' = [gen EXCEPT !.array = swap(@, gen.i, j), !.i = @ - 1]
    /\ UNCHANGED <<password, pc, validationResults, analysis, score, level, timeToCrack, app, strengthMeter, ui>>

\* return array.join(''), which generateRandomPassword returns in turn
ReturnShuffled ==
    /\ gen.pc = "shuffle"
    /\ ~(gen.i > 0)
    /\ gen' = [gen EXCEPT !.pc = "done", !.result = gen.array]
    /\ UNCHANGED <<password, pc, validationResults, analysis, score, level, timeToCrack, app, strengthMeter, ui>>

NextGen ==
    \/ PickLowercase \/ PickUppercase \/ PickNumber \/ PickSpecial
    \/ Fill \/ CallShuffle \/ ShuffleStep \/ ReturnShuffled

SpecGen == InitGen /\ [][NextGen]_vars

Generated == gen.pc = "done"

\* How many times c occurs in s.
Occurrences(s, c) == Cardinality({k \in 1..Len(s) : s[k] = c})

\* The result has one character of each class, only characters of the
\* combined alphabet, and is a rearrangement of the string that was shuffled.
WellFormedResult ==
    /\ \A class \in DOMAIN charset :
           \E k \in 1..Len(gen.result) : gen.result[k] \in Range(charset[class])
    /\ \A k \in 1..Len(gen.result) : gen.result[k] \in Range(allChars)
    /\ \A c \in Range(allChars) :
           Occurrences(gen.result, c) = Occurrences(gen.password, c)

\* C20: for every requested length n and every outcome of the random choices
\* generateRandomPassword(n) returns exactly n characters, with a lowercase
\* letter, an uppercase letter, a digit and a special character among them,
\* all from the combined alphabet, and the shuffle only permutes.
C20_GeneratedExactLength ==
    Generated => /\ Len(gen.result) = gen.length
                 /\ WellFormedResult

\* C20 (amended): the same for every requested length n >= 4; for a smaller
\* n the result has the four guaranteed characters, so 4 characters.
C20_GeneratedAtLeastFour ==
    Generated => /\ Len(gen.result) = Max(gen.length, 4)
                 /\ WellFormedResult

\* C20 witness: five characters were requested and the shuffle moved some.
C20_Witness ==
    /\ Generated
    /\ gen.length = 5
    /\ Len(gen.result) = 5
    /\ gen.result # gen.password

(***************************************************************************)
(* Criteria, score and level together (under Spec).                        *)
(***************************************************************************)
\* The feedback has the message of every false criterion: the 'too short'
\* message for length, the criterion's own message for the other seven.
FalseCriteriaReported ==
    /\ \A c \in Range(FeedbackOrder) :
           ~analysis.criteria[c] => FeedbackText[pc][c] \in Range(analysis.feedback)
    /\ ~analysis.criteria.length =>
           analysis.feedback[1] = FeedbackText[pc].short[1]
                                  \o ToString(Len(password)) \o FeedbackText[pc].short[2]

\* C23: a password can have the level STRONG or VERY_STRONG while one of the
\* eight criteria is false, and its feedback then still has the message of
\* each false criterion.
C23_FeedbackFollowsCriteria ==
    (RulesRan /\ analysis.level \in {"STRONG", "VERY_STRONG"} /\ ~AllCriteriaTrue)
        => FalseCriteriaReported

\* C23 witness: a STRONG password without lowercase letters, so the lowercase
\* message is in the feedback.
C23_Witness ==
    /\ RulesRan
    /\ analysis.level = "STRONG"
    /\ analysis.criteria.hasSpecialChars
    /\ ~analysis.criteria.hasLowercase
    /\ FeedbackText[pc].hasLowercase \in Range(analysis.feedback)

\* What the page shows as time to crack: UI.updateAll hands the analysed
\* password and its score to the estimator of the same class.
ShownTimeToCrack ==
    IF pc = "variant1" THEN estimateTimeToCrack(password, analysis.score)
    ELSE estimateTimeToCrackTr(password, analysis.score)

\* C27: the score is at most 85, the sum before the clamp too, so the clamp at
\* 100 never acts; the banded estimator, given that score, never says
\* 'Decades' or 'Years to decades'; the second encouragement is suggested
\* only at score 85.
C27_ScoreAtMost85 ==
    RulesRan =>
        /\ analysis.score <= 85
        /\ BonusSum - PenaltySum <= 85
        /\ ShownTimeToCrack \notin {"Decades", "Years to decades"}
        /\ SuggestionText[pc].second \in Range(analysis.suggestions)
               => analysis.score = 85

\* C27 witness: the highest score, for a password of 12 characters or more,
\* with the second encouragement and the label 'Years'.
C27_Witness ==
    /\ RulesRan
    /\ pc = "variant1"
    /\ analysis.score = 85
    /\ Len(password) >= 12
    /\ SuggestionText[pc].second \in Range(analysis.suggestions)
    /\ ShownTimeToCrack = "Years"

AnalyzeGivesEmptyResult ==
    IF pc = "variant1" THEN analyze(password) = getEmptyAnalysis
    ELSE analyzeTr(password) = getEmptyAnalysisTr

\* C29: for every non-empty password, blanks only included, and every score
\* the estimator returns a duration and not the 'no password entered' text;
\* that text is returned for exactly the inputs analyze answers with the
\* empty result.
C29_SentinelOnlyForEmpty ==
    Estimated =>
        \A i \in 1..2 :
            /\ Len(password) >= 1 => timeToCrack[i] # Sentinel[pc]
            /\ timeToCrack[i] = Sentinel[pc] <=> AnalyzeGivesEmptyResult

(***************************************************************************)
(* The entropy-style estimator of variant 2 on its own: passwords of every *)
(* mix of classes and every length up to MaxEntropyLen.                    *)
(***************************************************************************)
\* Bound on the length of the passwords estimated.
MaxEntropyLen == 16

\* 'a', 'B', '3', '#' and their mixes: alphabets 26, 26, 10, 32, 52, 36, 58,
\* 42, 62, 68 and 94.
EntropyPatterns ==
    { << 97 >>, << 66 >>, << 51 >>, << 35 >>, << 97, 66 >>, << 97, 51 >>,
      << 97, 35 >>, << 51, 35 >>, << 97, 66, 51 >>, << 66, 51, 35 >>,
      << 97, 66, 51, 35 >> }

EntropyInputs ==
    { << >> } \cup { Cycle(pattern, n) : pattern \in EntropyPatterns, n \in 1..MaxEntropyLen }

InitEntropy ==
    /\ password \in EntropyInputs
    /\ score = << 0, 100 >>
    /\ timeToCrack = NoEstimate
    /\ pc = "idle"
    /\ validationResults = NotRun
    /\ analysis = NoAnalysis
    /\ level = NoLevels
    /\ gen = NoGeneration
    /\ app = NoApp
    /\ strengthMeter = NoMeter
    /\ ui = NoUI

NextEntropy == EstimateTimeToCrackTr

SpecEntropy == InitEntropy /\ [][NextEntropy]_vars

\* The sum of the sizes of the classes the password has characters of.
AlphabetSize ==
    LET size == [ lower |-> 26, upper |-> 26, digit |-> 10, other |-> 32 ]
        present ==
            { c \in DOMAIN size :
                \E k \in 1..Len(password) :
                    CASE c = "lower" -> password[k] \in 97..122
                      [] c = "upper" -> password[k] \in 65..90
                      [] c = "digit" -> password[k] \in 48..57
                      [] OTHER -> password[k] \notin (97..122) \cup (65..90) \cup (48..57) }
        RECURSIVE sum(_)
        sum(cs) == IF cs = {} THEN 0
                   ELSE LET c == CHOOSE x \in cs : TRUE IN size[c] + sum(cs \ {c})
    IN  sum(present)

\* alphabet ^ length, the number of guesses
Guesses == mathPow(AlphabetSize, Len(password))

\* The units in order: the text after the quantity, the guesses one unit
\* takes, and the guesses from which the next unit is used (60 s, 60 min,
\* 24 h, 30 days, 12 months of 30 days, 100 years of 365 days).
EntropyUnits ==
    LET second == << 100000, 10000 >>
        day    == second \o << 86400 >>
    IN  << [ text |-> " saniye", one |-> second,               limit |-> second \o << 60 >> ],
           [ text |-> " dakika", one |-> second \o << 60 >>,   limit |-> second \o << 3600 >> ],
           [ text |-> " saat",   one |-> second \o << 3600 >>, limit |-> day ],
           [ text |-> " gun",    one |-> day,                  limit |-> day \o << 30 >> ],
           [ text |-> " ay",     one |-> day \o << 30 >>,      limit |-> day \o << 360 >> ],
           [ text |-> " yil",    one |-> day \o << 365 >>,     limit |-> day \o << 36500 >> ] >>

\* q is the guesses divided by the unit, rounded half up:
\* (2q - 1) unit <= 2 guesses < (2q + 1) unit
RoundsTo(q, unit) ==
    LET twice == bigMulSmall(Guesses, 2, 0)
        one   == bigProduct(unit)
    IN  /\ ~bigLess(twice, bigMulSmall(one, 2 * q - 1, 0))
        /\ bigLess(twice, bigMulSmall(one, 2 * q + 1, 0))

\* The label is a quantity of at least 1 in the given unit.
QuantityIn(label, u) ==
    \E q \in 1..100 : label = ToString(q) \o u.text /\ RoundsTo(q, u.one)

EntropyLabelAsClaimed(label) ==
    LET units   == EntropyUnits
        fitting == { k \in 1..Len(units) : bigLess(Guesses, bigProduct(units[k].limit)) }
        year    == units[6].one
    IN  IF bigLess(Guesses, bigProduct(units[1].one)) THEN label = "1 saniyeden az"
        ELSE IF fitting # {}
        THEN QuantityIn(label, units[CHOOSE k \in fitting : \A j \in fitting : k <= j])
        ELSE IF bigLess(Guesses, bigProduct(year \o << 1000 >>))
        THEN \E q \in 10..100 :
                 label = ToString(10 * q) \o " yil" /\ RoundsTo(q, year \o << 10 >>)
        ELSE label = "binlerce yil"

\* C30: in the entropy-style estimator, for a non-empty password, the alphabet
\* is the sum of the sizes of the classes present (26 lower, 26 upper, 10
\* digit, 32 other) and at least 10; the label is 'less than 1 second' when
\* alphabet^length is below 1e9 guesses, 'thousands of years' from 1000 years
\* on, otherwise a quantity in the coarsest unit whose threshold is not
\* exceeded (60 s, 60 min, 24 h, 30 days, 12 months of 30 days, then years of
\* 365 days); the quantity shown is never 0.
C30_EntropyEstimate ==
    (Estimated /\ password # << >>) =>
        /\ AlphabetSize >= 10
        /\ \A i \in 1..2 : EntropyLabelAsClaimed(timeToCrack[i])

\* C30 witness: ten characters over lower, upper and digits take 27 years.
C30_Witness ==
    /\ Estimated
    /\ Len(password) = 10
    /\ AlphabetSize = 62
    /\ timeToCrack[1] = "27 yil"

(***************************************************************************)
(* StrengthMeter (its source is printed in README.md, lines 265-380).  An  *)
(* element is a record of the properties the class writes; classList is a  *)
(* set of class names.  call is the last call made on the object.          *)
(***************************************************************************)
\* classList.remove('weak', 'medium', 'strong', 'very-strong')
removeLevelClasses(classList) == classList \ {"weak", "medium", "strong", "very-strong"}

\* Mutant of updateBarColor: the classes of earlier calls are not removed.
updateBarColor_noRemove(barElement, lvl) ==
    CASE lvl \in {"VERY_WEAK", "WEAK"} ->
             [barElement EXCEPT !.classList = @ \cup {"weak"}]
      [] lvl = "MEDIUM" -> [barElement EXCEPT !.classList = @ \cup {"medium"}]
      [] lvl = "STRONG" -> [barElement EXCEPT !.classList = @ \cup {"strong"}]
      [] lvl = "VERY_STRONG" -> [barElement EXCEPT !.classList = @ \cup {"very-strong"}]
      [] OTHER -> barElement

updateBarColor(barElement, lvl) ==
    LET cleared == [barElement EXCEPT !.classList = removeLevelClasses(@)]
    IN  CASE lvl \in {"VERY_WEAK", "WEAK"} ->
                 [cleared EXCEPT !.classList = @ \cup {"weak"}]
          [] lvl = "MEDIUM" -> [cleared EXCEPT !.classList = @ \cup {"medium"}]
          [] lvl = "STRONG" -> [cleared EXCEPT !.classList = @ \cup {"strong"}]
          [] lvl = "VERY_STRONG" -> [cleared EXCEPT !.classList = @ \cup {"very-strong"}]
          [] OTHER -> cleared

updateLevelText(levelElement, lvl) ==
    LET chosen ==
            CASE lvl = "EMPTY"       -> [ levelText |-> "Degerlendiriliyor...", levelClass |-> "" ]
              [] lvl = "VERY_WEAK"   -> [ levelText |-> "Cok Zayif", levelClass |-> "weak" ]
              [] lvl = "WEAK"        -> [ levelText |-> "Zayif", levelClass |-> "weak" ]
              [] lvl = "MEDIUM"      -> [ levelText |-> "Orta", levelClass |-> "medium" ]
              [] lvl = "STRONG"      -> [ levelText |-> "Guclu", levelClass |-> "strong" ]
              [] lvl = "VERY_STRONG" -> [ levelText |-> "Cok Guclu", levelClass |-> "very-strong" ]
              [] OTHER               -> [ levelText |-> "", levelClass |-> "" ]
        removed == removeLevelClasses(levelElement.classList)
    IN  [ textContent |-> chosen.levelText,
          classList   |-> IF chosen.levelClass # "" THEN removed \cup {chosen.levelClass}
                          ELSE removed ]

\* strengthMeter.update(score, level)
StrengthMeter_update(meter, sc, lvl) ==
    [ barElement   |-> updateBarColor([meter.barElement EXCEPT !.width = ToString(sc) \o "%"], lvl),
      levelElement |-> updateLevelText(meter.levelElement, lvl),
      scoreElement |-> [ textContent |-> ToString(sc) ],
      call         |-> [ op |-> "update", args |-> << sc, lvl >> ] ]

\* strengthMeter.reset()
StrengthMeter_reset(meter) ==
    [ barElement   |-> [ width |-> "0%", classList |-> removeLevelClasses(meter.barElement.classList) ],
      levelElement |-> [ textContent |-> "Degerlendiriliyor...",
                         classList   |-> removeLevelClasses(meter.levelElement.classList) ],
      scoreElement |-> [ textContent |-> "0" ],
      call         |-> [ op |-> "reset", args |-> << >> ] ]

(***************************************************************************)
(* StrengthMeter on its own: constructed over elements whose markup is not *)
(* in the repository (any of the four classes may be set), then updated    *)
(* and reset in any order with any score and level.                        *)
(***************************************************************************)
LevelClasses == {"weak", "medium", "strong", "very-strong"}

MeterScores == {0, 7, 42, 85, 100}

InitMeter ==
    /\ strengthMeter \in
           [ barElement   : [ width : {""}, classList : SUBSET LevelClasses ],
             levelElement : [ textContent : {""}, classList : SUBSET LevelClasses ],
             scoreElement : [ textContent : {""} ],
             call         : { [ op |-> "new", args |-> << >> ] } ]
    /\ password = << >>
    /\ pc = "idle"
    /\ validationResults = NotRun
    /\ analysis = NoAnalysis
    /\ score = <<0, 0>>
    /\ level = NoLevels
    /\ timeToCrack = NoEstimate
    /\ gen = NoGeneration
    /\ app = NoApp
    /\ ui = NoUI

MeterUpdate ==
    /\ \E sc \in MeterScores, lvl \in Range(StrengthLevel) :
           strengthMeter' = StrengthMeter_update(strengthMeter, sc, lvl)
    /\ UNCHANGED <<password, pc, validationResults, analysis, score, level, timeToCrack,
                   gen, app, ui>>

MeterReset ==
    /\ strengthMeter' = StrengthMeter_reset(strengthMeter)
    /\ UNCHANGED <<password, pc, validationResults, analysis, score, level, timeToCrack,
                   gen, app, ui>>

NextMeter == MeterUpdate \/ MeterReset

SpecMeter == InitMeter /\ [][NextMeter]_vars

\* The class the claim gives to a level.
ClassOfLevel ==
    [ EMPTY |-> {}, VERY_WEAK |-> {"weak"}, WEAK |-> {"weak"}, MEDIUM |-> {"medium"},
      STRONG |-> {"strong"}, VERY_STRONG |-> {"very-strong"} ]

\* C25: after any calls of update and reset the bar and the level element
\* carry at most one of the classes weak, medium, strong, very-strong; after
\* update(score, level) both carry the class of that level (none for EMPTY),
\* the width is score% and the score text is score; after reset both carry
\* none, the width is 0% and the score text is '0'.
C25_MeterClasses ==
    strengthMeter.call.op # "new" =>
        LET barClasses   == strengthMeter.barElement.classList \cap LevelClasses
            levelClasses == strengthMeter.levelElement.classList \cap LevelClasses
            args         == strengthMeter.call.args
        IN  /\ Cardinality(barClasses) <= 1
            /\ Cardinality(levelClasses) <= 1
            /\ strengthMeter.call.op = "update" =>
                   /\ barClasses = ClassOfLevel[args[2]]
                   /\ levelClasses = ClassOfLevel[args[2]]
                   /\ strengthMeter.barElement.width = ToString(args[1]) \o "%"
                   /\ strengthMeter.scoreElement.textContent = ToString(args[1])
            /\ strengthMeter.call.op = "reset" =>
                   /\ barClasses = {}
                   /\ levelClasses = {}
                   /\ strengthMeter.barElement.width = "0%"
                   /\ strengthMeter.scoreElement.textContent = "0"

\* C25 witness: update(42, MEDIUM) was the last call and left only 'medium'.
C25_Witness ==
    /\ strengthMeter.call = [ op |-> "update", args |-> << 42, "MEDIUM" >> ]
    /\ strengthMeter.barElement = [ width |-> "42%", classList |-> {"medium"} ]
    /\ strengthMeter.levelElement.classList = {"medium"}

(***************************************************************************)
(* UI (part_002).  The content of an element is the sequence of the items  *)
(* appended to it, an item being its class and its text; the icon of an    *)
(* item is a function of its text or flag and is not kept.                 *)
(***************************************************************************)
UI_updateCriteriaList(criteria) ==
    LET criteriaItems ==
            << [ id |-> "length",            text |-> "En az 12 karakter" ],
               [ id |-> "hasLowercase",      text |-> "Kucuk harf iceriyor" ],
               [ id |-> "hasUppercase",      text |-> "Buyuk harf iceriyor" ],
               [ id |-> "hasNumbers",        text |-> "Rakam iceriyor" ],
               [ id |-> "hasSpecialChars",   text |-> "Ozel karakter iceriyor" ],
               [ id |-> "noRepeatingChars",  text |-> "Tekrarlanan karakter yok" ],
               [ id |-> "notWeakPassword",   text |-> "Zayif parola degil" ],
               [ id |-> "noSequentialChars", text |-> "Sirali karakter yok" ] >>
    IN  [ i \in 1..Len(criteriaItems) |->
            [ className |-> IF criteria[criteriaItems[i].id]
                            THEN "criteria-text criteria-met"
                            ELSE "criteria-text criteria-not-met",
              text      |-> criteriaItems[i].text ] ]

UI_updateFeedbackContent(feedback) ==
    IF Len(feedback) = 0
    THEN << [ className |-> "initial-message",
              text |-> "Analiz sonuclari burada gorunecektir." ] >>
    ELSE [ i \in 1..Len(feedback) |->
             [ className |-> "feedback-item fade-in", text |-> feedback[i] ] ]

UI_updateSuggestionsContent(suggestions) ==
    IF Len(suggestions) = 0
    THEN << [ className |-> "initial-message", text |-> "Oneriler burada gorunecektir." ] >>
    ELSE [ i \in 1..Len(suggestions) |-> [ className |-> "fade-in", text |-> suggestions[i] ] ]

\* The PasswordChecker class the page is built with.
PasswordChecker_analyze(checker, p) ==
    IF checker = "variant1" THEN analyze(p) ELSE analyzeTr(p)

PasswordChecker_estimateTimeToCrack(checker, p, s) ==
    IF checker = "variant1" THEN estimateTimeToCrack(p, s) ELSE estimateTimeToCrackTr(p, s)

UI_updateTimeToCrack(checker, p, s) == PasswordChecker_estimateTimeToCrack(checker, p, s)

\* ui.updateAll(analysis, password)
UI_updateAll(checker, result, p) ==
    [ criteriaList       |-> UI_updateCriteriaList(result.criteria),
      feedbackContent    |-> UI_updateFeedbackContent(result.feedback),
      suggestionsContent |-> UI_updateSuggestionsContent(result.suggestions),
      timeToCrack        |-> UI_updateTimeToCrack(checker, p, result.score) ]

\* ui.reset()
UI_reset ==
    [ criteriaList       |-> << >>,
      feedbackContent    |->
          << [ className |-> "initial-message",
               text |-> "Parolanizi girmeye basladiginizda detayli analiz sonuclari burada gorunecektir." ] >>,
      suggestionsContent |->
          << [ className |-> "initial-message",
               text |-> "Parolaniz analiz edildikten sonra guvenligi artirmak icin oneriler burada gorunecektir." ] >>,
      timeToCrack        |-> "Parola girmediniz" ]

(***************************************************************************)
(* PasswordStrengthCheckerApp (part_001, and part_000 with the Turkish     *)
(* labels).  app holds the password input (value, type), the toggle        *)
(* button's icon class and aria-label, the analysisTimer field (0 for      *)
(* null), and the window's timers: the ids of the timeouts that are set    *)
(* and have neither run nor been cleared.  setTimeout returns the ids      *)
(* 1, 2, ...  inputEvents, analysesByTimer and idleInputEvents count the   *)
(* input events, the runs of the timer callback, and the input events      *)
(* that arrived while no timeout was pending; analysedBy tells what ran    *)
(* analyzePassword last.                                                   *)
(***************************************************************************)
\* Bound on the number of input events, i.e. of timeouts set.
MaxTimers == 3

\* The aria-labels of the two pages: part_001 and part_000.
AriaLabels ==
    [ part_001 |-> [ hide |-> "Hide password",  show |-> "Show password" ],
      part_000 |-> [ hide |-> "Parolayi gizle", show |-> "Parolayi goster" ] ]

\* What the user types or pastes: '', 'abc', 'Xk7#mQw2', '1234'.
TypedValues ==
    { << >>, <<97, 98, 99>>, <<88, 107, 55, 35, 109, 81, 119, 50>>, <<49, 50, 51, 52>> }

\* p is a value generateRandomPassword(16) can return: sixteen characters of
\* allChars with one at least of each class, in any order (the shuffle
\* reaches every order).
CanBeGenerated(p) ==
    /\ Len(p) = 16
    /\ Range(p) \subseteq Range(allChars)
    /\ \A class \in DOMAIN charset : Range(p) \cap Range(charset[class]) # {}

\* Three of them.
RandomPasswords ==
    { p \in { \* 'A!aaaaabcdef1234'
              <<65, 33, 97, 97, 97, 97, 97, 98, 99, 100, 101, 102, 49, 50, 51, 52>>,
              \* 'kT7#mQw2zLx9@HvB'
              <<107, 84, 55, 35, 109, 81, 119, 50, 122, 76, 120, 57, 64, 72, 118, 66>>,
              \* 'Qtest9#kLmn2@xVb'
              <<81, 116, 101, 115, 116, 57, 35, 107, 76, 109, 110, 50, 64, 120, 86, 98>> } :
        CanBeGenerated(p) }

\* Mutant of handlePasswordChange: the previous timeout is not cleared.
handlePasswordChange_noClear(a) ==
    [ a EXCEPT !.analysisTimer = a.nextTimer,
               !.timers        = a.timers \cup {a.nextTimer},
               !.nextTimer     = a.nextTimer + 1 ]

\* handlePasswordChange(): clearTimeout(analysisTimer) if it is set (clearing
\* a timeout that has run does nothing), then setTimeout(..., 100).
handlePasswordChange(a) ==
    LET cleared == IF a.analysisTimer # 0 THEN a.timers \ {a.analysisTimer} ELSE a.timers
    IN  [ a EXCEPT !.analysisTimer = a.nextTimer,
                   !.timers        = cleared \cup {a.nextTimer},
                   !.nextTimer     = a.nextTimer + 1 ]

\* PasswordChecker.analyze(password) and what ui.updateAll(analysis, password)
\* leaves in the UI, tabulated for the values the input takes.
Analysed ==
    { [ checker  |-> c,
        password |-> p,
        analysis |-> PasswordChecker_analyze(c, p),
        ui       |-> UI_updateAll(c, PasswordChecker_analyze(c, p), p) ] :
      c \in {"variant1", "variant2"}, p \in (TypedValues \cup RandomPasswords) \ {<< >>} }

\* Mutant of analyzePassword: it returns for the empty value without
\* resetting the display.
analyzePassword_noReset(a, meter) ==
    LET p == a.passwordInput.value
    IN  IF Len(p) = 0
        THEN [ ui |-> ui, strengthMeter |-> meter ]
        ELSE LET done == CHOOSE t \in Analysed : t.checker = a.checker /\ t.password = p
             IN  [ strengthMeter |->
                       StrengthMeter_update(meter, done.analysis.score, done.analysis.level),
                   ui            |-> done.ui ]

\* analyzePassword(): what it leaves in the strength meter and the UI, a
\* being the app it reads the input's value from.
analyzePassword(a, meter) ==
    LET p == a.passwordInput.value
    IN  IF Len(p) = 0
        THEN [ ui |-> UI_reset, strengthMeter |-> StrengthMeter_reset(meter) ]
        ELSE LET done == CHOOSE t \in Analysed : t.checker = a.checker /\ t.password = p
             IN  [ strengthMeter |->
                       StrengthMeter_update(meter, done.analysis.score, done.analysis.level),
                   ui            |-> done.ui ]

\* Mutant of togglePasswordVisibility: the icon is not changed.
togglePasswordVisibility_iconKept(a) ==
    IF a.passwordInput.type = "password"
    THEN [ a EXCEPT !.passwordInput.type = "text",
                    !.ariaLabel = AriaLabels[a.page].hide ]
    ELSE [ a EXCEPT !.passwordInput.type = "password",
                    !.ariaLabel = AriaLabels[a.page].show ]

\* togglePasswordVisibility()
togglePasswordVisibility(a) ==
    IF a.passwordInput.type = "password"
    THEN [ a EXCEPT !.passwordInput.type = "text",
                    !.icon = "fas fa-eye-slash",
                    !.ariaLabel = AriaLabels[a.page].hide ]
    ELSE [ a EXCEPT !.passwordInput.type = "password",
                    !.icon = "fas fa-eye",
                    !.ariaLabel = AriaLabels[a.page].show ]

\* generateAndSetPassword() up to its call of analyzePassword, randomPassword
\* being what generateRandomPassword(16) returned.
generateAndSetPassword(a, randomPassword) ==
    [ a EXCEPT !.passwordInput = [ value |-> randomPassword, type |-> "text" ],
               !.icon = "fas fa-eye-slash",
               !.ariaLabel = AriaLabels[a.page].hide ]

\* The strength meter's elements as the page's markup has them.
MeterMarkup ==
    [ barElement   : [ width : {""}, classList : SUBSET LevelClasses ],
      levelElement : [ textContent : {""}, classList : SUBSET LevelClasses ],
      scoreElement : [ textContent : {""} ],
      call         : { [ op |-> "new", args |-> << >> ] } ]

\* The page after `new PasswordStrengthCheckerApp()`.  The markup is not in
\* the repository: the input's type, the icon and the label are any of the
\* values the code uses, the input has no value; the constructor resets the
\* UI and the strength meter and sets no timeout.
InitApp ==
    /\ app \in [ loaded        : {TRUE},
                 page          : DOMAIN AriaLabels,
                 checker       : {"variant1", "variant2"},
                 passwordInput : [ value : {<< >>}, type : {"password", "text"} ],
                 icon          : {"fas fa-eye", "fas fa-eye-slash"},
                 ariaLabel     : { AriaLabels[pg][l] : pg \in DOMAIN AriaLabels, l \in {"show", "hide"} },
                 analysisTimer : {0},
                 timers        : {{}},
                 nextTimer     : {1},
                 inputEvents   : {0},
                 idleInputEvents : {0},
                 analysesByTimer : {0},
                 analysedBy    : {"none"} ]
    /\ app.ariaLabel \in { AriaLabels[app.page].show, AriaLabels[app.page].hide }
    /\ strengthMeter \in { StrengthMeter_reset(m) : m \in MeterMarkup }
    /\ ui = UI_reset
    /\ password = << >>
    /\ pc = "idle"
    /\ validationResults = NotRun
    /\ analysis = NoAnalysis
    /\ score = <<0, 0>>
    /\ level = NoLevels
    /\ timeToCrack = NoEstimate
    /\ gen = NoGeneration

\* An 'input' event: the input's value has changed, the listener runs
\* handlePasswordChange.
InputEvent ==
    /\ app.nextTimer <= MaxTimers
    /\ \E v \in TypedValues \ {app.passwordInput.value} :
           app' = [ handlePasswordChange([app EXCEPT !.passwordInput.value = v])
                      EXCEPT !.inputEvents = @ + 1,
                             !.idleInputEvents = IF app.timers = {} THEN @ + 1 ELSE @ ]
    /\ UNCHANGED <<password, pc, validationResults, analysis, score, level, timeToCrack,
                   gen, strengthMeter, ui>>

\* A pending timeout expires: its callback runs analyzePassword.
TimerExpires ==
    /\ \E id \in app.timers :
           app' = [ app EXCEPT !.timers = @ \ {id}, !.analysesByTimer = @ + 1,
                               !.analysedBy = "timer" ]
    /\ strengthMeter' = analyzePassword(app, strengthMeter).strengthMeter
    /\ ui' = analyzePassword(app, strengthMeter).ui
    /\ UNCHANGED <<password, pc, validationResults, analysis, score, level, timeToCrack, gen>>

\* A click on the toggle button.
ToggleClick ==
    /\ app' = togglePasswordVisibility(app)
    /\ UNCHANGED <<password, pc, validationResults, analysis, score, level, timeToCrack,
                   gen, strengthMeter, ui>>

\* A click on the generate button.
GenerateClick ==
    /\ \E randomPassword \in RandomPasswords :
           /\ app' = [ generateAndSetPassword(app, randomPassword)
                        EXCEPT !.analysedBy = "generate" ]
           /\ strengthMeter' = analyzePassword(app', strengthMeter).strengthMeter
           /\ ui' = analyzePassword(app', strengthMeter).ui
    /\ UNCHANGED <<password, pc, validationResults, analysis, score, level, timeToCrack, gen>>

NextApp == InputEvent \/ TimerExpires \/ ToggleClick \/ GenerateClick

SpecApp == InitApp /\ [][NextApp]_vars

\* The event loop runs the callback of a timeout that stays pending.
SpecAppFair == SpecApp /\ WF_vars(TimerExpires)

\* The strength meter and the UI show the analysis of the input's value:
\* the reset display for the empty value, the result of analyze otherwise.
DisplayIsCurrent ==
    LET p == app.passwordInput.value
    IN  IF Len(p) = 0
        THEN /\ strengthMeter.call.op = "reset"
             /\ strengthMeter.barElement.width = "0%"
             /\ strengthMeter.scoreElement.textContent = "0"
             /\ ui = UI_reset
        ELSE LET done == CHOOSE t \in Analysed : t.checker = app.checker /\ t.password = p
             IN  /\ strengthMeter.call =
                        [ op |-> "update", args |-> <<done.analysis.score, done.analysis.level>> ]
                 /\ ui = done.ui

\* C21: every password generateRandomPassword(16) can return, once it is set
\* and analysed by the generate click, is shown with the level STRONG or
\* VERY_STRONG.
C21_GeneratedIsStrong ==
    (app.loaded /\ app.passwordInput.value \in RandomPasswords /\ DisplayIsCurrent)
        => strengthMeter.call.args[2] \in {"STRONG", "VERY_STRONG"}

\* At most one timeout is pending, and it is the one set by the last input
\* event; each run of input events that began with no timeout pending has
\* caused one analysis, or has its timeout still pending.
OneAnalysisPerBurst ==
    /\ app.timers \subseteq {app.analysisTimer}
    /\ app.analysesByTimer + Cardinality(app.timers) = app.idleInputEvents

\* C22: debounce.  An input event cancels the timeout set by the previous
\* one, so a superseded timeout never runs an analysis; a burst of input
\* events, each arriving while the previous timeout is pending, causes
\* exactly one analysis, run by the timeout of the last event, and it shows
\* the analysis of the value the input has when it runs.
C22_Debounce ==
    /\ [](app.loaded => OneAnalysisPerBurst)
    /\ [][TimerExpires =>
            /\ app.timers = {app.analysisTimer}
            /\ app'.timers = {}
            /\ DisplayIsCurrent']_vars

\* Three input events in one burst and the one analysis they caused.
C22_Witness ==
    /\ app.loaded
    /\ app.inputEvents = 3
    /\ app.idleInputEvents = 1
    /\ app.analysesByTimer = 1
    /\ app.timers = {}
    /\ app.passwordInput.value \in TypedValues \ {<< >>}
    /\ DisplayIsCurrent

\* C24: over all interleavings of input events, timer expiries and clicks,
\* whenever no analysis timeout is pending the display is that of the
\* input's current value (the reset display for the empty value, the
\* display of its analysis otherwise); a generated value is shown with its
\* own analysis from the click on, whether or not an older timeout is still
\* pending or expires later; and, the event loop being fair to pending
\* timeouts, every input event is followed by a state with no timeout
\* pending and the display current.
C24_DisplayFollowsInput ==
    /\ []((app.loaded /\ app.timers = {}) => DisplayIsCurrent)
    /\ []((app.loaded /\ app.passwordInput.value \in RandomPasswords) => DisplayIsCurrent)
    /\ (app.loaded /\ app.timers # {}) ~> (app.timers = {} /\ DisplayIsCurrent)

\* A timeout that was pending at a generate click has expired since: the
\* generated value is still the one on display.
C24_Witness ==
    /\ app.loaded
    /\ app.passwordInput.value \in RandomPasswords
    /\ app.analysedBy = "timer"
    /\ app.timers = {}
    /\ DisplayIsCurrent

\* The input's type, the toggle button's icon and its aria-label of app a.
Visibility(a) == << a.passwordInput.type, a.icon, a.ariaLabel >>

\* Type, icon and label agree: a visible password with the crossed eye and
\* the 'hide' label, a hidden one with the eye and the 'show' label.
VisibilityAgrees(a) ==
    \/ Visibility(a) = << "text", "fas fa-eye-slash", AriaLabels[a.page].hide >>
    \/ Visibility(a) = << "password", "fas fa-eye", AriaLabels[a.page].show >>

\* C26: a toggle click or a generate click leaves the input's type, the icon
\* and the aria-label in agreement, and no later event breaks it; two
\* toggles in a row restore type, icon and label; a generate click leaves
\* the password visible; a toggle click changes neither the input's value
\* nor the displayed analysis.
C26_VisibilityToggle ==
    /\ [][(ToggleClick \/ GenerateClick) => VisibilityAgrees(app')]_vars
    /\ [][VisibilityAgrees(app) => VisibilityAgrees(app')]_vars
    /\ []((app.loaded /\ VisibilityAgrees(app)) =>
              Visibility(togglePasswordVisibility(togglePasswordVisibility(app)))
                  = Visibility(app))
    /\ [][GenerateClick => app'.passwordInput.type = "text"]_vars
    /\ [][ToggleClick =>
            /\ Visibility(app') # Visibility(app)
            /\ app'.passwordInput.value = app.passwordInput.value
            /\ strengthMeter' = strengthMeter
            /\ ui' = ui]_vars

\* A generated password, shown by the generate click, has been hidden again
\* by a toggle click.
C26_Witness ==
    /\ app.loaded
    /\ app.passwordInput.value \in RandomPasswords
    /\ Visibility(app) = << "password", "fas fa-eye", AriaLabels[app.page].show >>
    /\ DisplayIsCurrent

====
